---- MODULE Spec2Model ----
(***************************************************************************)
(* B+Tree index over a 10-byte string prefix (wiscdb BTreeIndex).          *)
(*                                                                         *)
(* Keys are the order codes of 10-byte prefixes under strncmp(.,.,10):     *)
(* ZeroKey is the all-NUL prefix that fills vacated slots, every other     *)
(* code is a non-empty prefix.  Page ids are the numbers handed out by     *)
(* the buffer manager's allocatePage (1 is the meta page).                 *)
(***************************************************************************)
EXTENDS Integers, Sequences, FiniteSets, TLC

\* ---------------------------------------------------------------- constants
LEAF_NUM_KEYS == 4
NON_LEAF_NUM_KEYS == 4
INVALID_NUMBER == 0
ZeroKey == 0

GT == "GT"
GTE == "GTE"
LT == "LT"
LTE == "LTE"
Operator == {LT, LTE, GTE, GT}

NoRid == [page_number |-> INVALID_NUMBER, slot_number |-> 0]

\* ------------------------------------------------------------- node layout
NonLeafNode ==
  [type |-> "nonleaf", level |-> 0,
   keyArray |-> [i \in 0..(NON_LEAF_NUM_KEYS - 1) |-> ZeroKey],
   pageNoArray |-> [i \in 0..NON_LEAF_NUM_KEYS |-> INVALID_NUMBER]]

LeafNode ==
  [type |-> "leaf",
   keyArray |-> [i \in 0..(LEAF_NUM_KEYS - 1) |-> ZeroKey],
   ridArray |-> [i \in 0..(LEAF_NUM_KEYS - 1) |-> NoRid],
   rightSibPageNo |-> INVALID_NUMBER]

\* Strings are sequences of character codes; a char array is a function on
\* 0..(size - 1), and NUL is 0.
RELATION_NAME_SIZE == 20
NUL == 0

\* strncpy(dest, src, n): the characters of src, then NULs up to n bytes; no
\* NUL is written when src has n characters or more
strncpy(src, n) ==
  [i \in 0..(n - 1) |-> IF i < Len(src) THEN src[i + 1] ELSE NUL]

\* the bytes of a native int, lowest first
IntBytes(n) == [i \in 0..3 |-> (n \div (256 ^ i)) % 256]

IndexMetaInfo(name, off, root) ==
  [type |-> "meta", relationName |-> strncpy(name, RELATION_NAME_SIZE),
   attrByteOffset |-> off, rootPageNo |-> root]

\* the meta page as strcmp reads it through header->relationName: the name
\* array, then the members laid out behind it
HeaderBytes(header) ==
  [i \in 0..(RELATION_NAME_SIZE + 7) |->
     IF i < RELATION_NAME_SIZE THEN header.relationName[i]
     ELSE IF i < RELATION_NAME_SIZE + 4
     THEN IntBytes(header.attrByteOffset)[i - RELATION_NAME_SIZE]
     ELSE IntBytes(header.rootPageNo)[i - RELATION_NAME_SIZE - 4]]

\* strcmp(mem, str.c_str()): bytes are compared until they differ or both
\* are NUL; 0 when no difference was met
RECURSIVE strcmpFrom(_, _, _)
strcmpFrom(mem, str, i) ==
  IF mem[i] # (IF i < Len(str) THEN str[i + 1] ELSE NUL)
  THEN mem[i] - (IF i < Len(str) THEN str[i + 1] ELSE NUL)
  ELSE IF mem[i] = NUL THEN 0
  ELSE strcmpFrom(mem, str, i + 1)

strcmp(mem, str) == strcmpFrom(mem, str, 0)

\* ------------------------------------------------- buffer manager interface
\* The record s threaded through an operation:
\*   pages  page contents, indexed by page id
\*   pin    pin count of every page
\*   pin0   pin counts when the public operation started
\*   wr     pages written by the operation under a pin it still holds
\*   root   rootPageNum
\*   log    pin / unpin events of the operation, in order
\*   exc    "none" or the exception that is propagating
\*   calls, failAt   readPage/allocatePage call counter, and the call that fails
\*   split, splitKey result and out-parameter of insertInSubtree / insertInLeaf

Pin0(s, p) == IF p \in DOMAIN s.pin0 THEN s.pin0[p] ELSE 0

Held(s, p) == s.pin[p] - Pin0(s, p)

HeldTotalRec(s, n) ==
  LET RECURSIVE Sum(_)
      Sum(i) == IF i = 0 THEN 0 ELSE Held(s, i) + Sum(i - 1)
  IN Sum(n)

HeldTotal(s) == HeldTotalRec(s, Len(s.pin))

\* pins on leaf pages, whoever holds them
LeafPinsRec(s, n) ==
  LET RECURSIVE Sum(_)
      Sum(i) == IF i = 0 THEN 0
                ELSE (IF s.pages[i].type = "leaf" THEN s.pin[i] ELSE 0)
                     + Sum(i - 1)
  IN Sum(n)

LeafPins(s) == LeafPinsRec(s, Len(s.pin))

\* one entry of the pin / unpin trace of an operation
Event(s, ev, p, dirty, written) ==
  [ev |-> ev, page |-> p, dirty |-> dirty, written |-> written,
   held |-> HeldTotal(s), leafPins |-> LeafPins(s)]

Throw(s, e) == [s EXCEPT !.exc = e]

allocatePage(s, pg) ==
  IF s.calls + 1 = s.failAt
  THEN [s EXCEPT !.calls = @ + 1, !.exc = "BufferExceeded"]
  ELSE LET p == Len(s.pages) + 1
           t == [s EXCEPT !.calls = @ + 1,
                          !.pages = Append(@, pg),
                          !.pin = Append(@, 1)]
       IN [t EXCEPT !.log = Append(@, Event(t, "pin", p, FALSE, FALSE))]

readPage(s, p) ==
  IF s.calls + 1 = s.failAt
  THEN [s EXCEPT !.calls = @ + 1, !.exc = "BufferExceeded"]
  ELSE IF p \notin DOMAIN s.pages
  THEN [s EXCEPT !.calls = @ + 1, !.exc = "InvalidPage"]
  ELSE LET t == [s EXCEPT !.calls = @ + 1, !.pin[p] = @ + 1]
       IN [t EXCEPT !.log = Append(@, Event(t, "pin", p, FALSE, FALSE))]

unPinPage(s, p, dirty) ==
  IF p \notin DOMAIN s.pages \/ s.pin[p] = 0
  THEN [s EXCEPT !.exc = "PageNotPinned",
                 !.log = Append(@, Event(s, "underpin", p, dirty, FALSE))]
  ELSE LET t == [s EXCEPT !.pin[p] = @ - 1]
       IN [t EXCEPT !.wr = IF Held(t, p) <= 0 THEN @ \ {p} ELSE @,
                    !.log = Append(@, Event(t, "unpin", p, dirty,
                                            p \in s.wr))]

\* a store through a pointer into a page; s.stale collects the pages that
\* are read or written while the index holds no pin on them
Store(s, p, pg) ==
  [s EXCEPT !.pages[p] = pg, !.wr = @ \cup {p},
            !.stale = IF s.pin[p] > 0 THEN @ ELSE @ \cup {p}]

\* a read through a pointer into a page
Deref(s, p) ==
  IF s.exc # "none" \/ s.pin[p] > 0 THEN s
  ELSE [s EXCEPT !.stale = @ \cup {p}]

\* ---------------------------------------------------- occupancy predicates
RECURSIVE NonLeafLengthFrom(_, _)
NonLeafLengthFrom(node, i) ==
  IF i >= NON_LEAF_NUM_KEYS + 1 THEN NON_LEAF_NUM_KEYS
  ELSE IF node.pageNoArray[i] = INVALID_NUMBER THEN i - 1
  ELSE NonLeafLengthFrom(node, i + 1)

getNonLeafLength(node) == NonLeafLengthFrom(node, 1)

RECURSIVE LeafLengthFrom(_, _)
LeafLengthFrom(node, i) ==
  IF i >= LEAF_NUM_KEYS THEN LEAF_NUM_KEYS
  ELSE IF node.ridArray[i].page_number = INVALID_NUMBER THEN i
  ELSE LeafLengthFrom(node, i + 1)

getLeafLength(node) == LeafLengthFrom(node, 0)

isRoomyLeaf(leaf) ==
  leaf.ridArray[LEAF_NUM_KEYS - 1].page_number = INVALID_NUMBER

\* the test of isRoomyNonLeaf on a node whose pageNoArray has any number of
\* slots: slot leafNumKeys is read; outside is what the comparison yields
\* when that slot lies behind the array
RoomyNonLeafAt(pageNoArray, leafNumKeys, outside) ==
  IF leafNumKeys \in DOMAIN pageNoArray
  THEN pageNoArray[leafNumKeys] = INVALID_NUMBER
  ELSE outside

isRoomyNonLeaf(node) ==
  RoomyNonLeafAt(node.pageNoArray, LEAF_NUM_KEYS, FALSE)

\* ------------------------------------------- insertion into a roomy node
\* first slot i at which insertInRoomyLeaf places the pair: a free slot or a
\* key >= the new key; LEAF_NUM_KEYS when the loop runs off the array
\* faulty variant: the pair goes to the first free slot
RECURSIVE RoomyLeafSlotFree(_, _, _)
RoomyLeafSlotFree(leaf, key, i) ==
  IF i >= LEAF_NUM_KEYS THEN LEAF_NUM_KEYS
  ELSE IF leaf.ridArray[i].page_number = INVALID_NUMBER THEN i
  ELSE RoomyLeafSlotFree(leaf, key, i + 1)

RECURSIVE RoomyLeafSlot(_, _, _)
RoomyLeafSlot(leaf, key, i) ==
  IF i >= LEAF_NUM_KEYS THEN LEAF_NUM_KEYS
  ELSE IF leaf.ridArray[i].page_number = INVALID_NUMBER THEN i
  ELSE IF leaf.keyArray[i] >= key THEN i
  ELSE RoomyLeafSlot(leaf, key, i + 1)

insertInRoomyLeaf(leaf, krid) ==
  LET i == RoomyLeafSlot(leaf, krid.key, 0)
  IN IF i >= LEAF_NUM_KEYS THEN leaf
     ELSE IF leaf.ridArray[i].page_number = INVALID_NUMBER
     THEN [leaf EXCEPT !.keyArray[i] = krid.key, !.ridArray[i] = krid.rid]
     ELSE \* shift slots i..LEAF_NUM_KEYS-2 one to the right, then place
       [leaf EXCEPT
          !.keyArray = [j \in 0..(LEAF_NUM_KEYS - 1) |->
                          IF j < i THEN leaf.keyArray[j]
                          ELSE IF j = i THEN krid.key
                          ELSE leaf.keyArray[j - 1]],
          !.ridArray = [j \in 0..(LEAF_NUM_KEYS - 1) |->
                          IF j < i THEN leaf.ridArray[j]
                          ELSE IF j = i THEN krid.rid
                          ELSE leaf.ridArray[j - 1]]]

\* faulty variant: the pair goes behind the last occupied slot
RECURSIVE RoomyNonLeafSlotFree(_, _, _)
RoomyNonLeafSlotFree(node, key, i) ==
  IF i >= NON_LEAF_NUM_KEYS THEN NON_LEAF_NUM_KEYS
  ELSE IF node.pageNoArray[i + 1] = INVALID_NUMBER THEN i
  ELSE RoomyNonLeafSlotFree(node, key, i + 1)

RECURSIVE RoomyNonLeafSlot(_, _, _)
RoomyNonLeafSlot(node, key, i) ==
  IF i >= NON_LEAF_NUM_KEYS THEN NON_LEAF_NUM_KEYS
  ELSE IF node.pageNoArray[i + 1] = INVALID_NUMBER THEN i
  ELSE IF node.keyArray[i] >= key THEN i
  ELSE RoomyNonLeafSlot(node, key, i + 1)

insertInRoomyNonLeaf(node, pageKey) ==
  LET i == RoomyNonLeafSlot(node, pageKey.key, 0)
  IN IF i >= NON_LEAF_NUM_KEYS THEN node
     ELSE IF node.pageNoArray[i + 1] = INVALID_NUMBER
     THEN [node EXCEPT !.keyArray[i] = pageKey.key,
                       !.pageNoArray[i + 1] = pageKey.pageNo]
     ELSE \* shift keys i..M-2 and children i+1..M-1 one to the right
       [node EXCEPT
          !.keyArray = [j \in 0..(NON_LEAF_NUM_KEYS - 1) |->
                          IF j < i THEN node.keyArray[j]
                          ELSE IF j = i THEN pageKey.key
                          ELSE node.keyArray[j - 1]],
          !.pageNoArray = [j \in 0..NON_LEAF_NUM_KEYS |->
                          IF j < i + 1 THEN node.pageNoArray[j]
                          ELSE IF j = i + 1 THEN pageKey.pageNo
                          ELSE node.pageNoArray[j - 1]]]

\* ------------------------------------------------------------ the engine
headerPageNum == 1

getHeader(s) == readPage(s, headerPageNum)

Half(n) == n \div 2

\* stores through a pointer into a pinned page
SetKey(s, p, i, key) ==
  Store(s, p, [s.pages[p] EXCEPT !.keyArray[i] = key])

\* faulty variant: the child is also stored in slot 0
SetChildBoth(s, p, i, child) ==
  Store(s, p, [s.pages[p] EXCEPT !.pageNoArray[0] = child,
                                 !.pageNoArray[i] = child])

SetChild(s, p, i, child) ==
  Store(s, p, [s.pages[p] EXCEPT !.pageNoArray[i] = child])

SetRightSib(s, p, sib) ==
  Store(s, p, [s.pages[p] EXCEPT !.rightSibPageNo = sib])

SetEntry(s, p, i, key, rid) ==
  Store(s, p, [s.pages[p] EXCEPT !.keyArray[i] = key, !.ridArray[i] = rid])

\* faulty variant: the header is pinned and released but not written
SetRootPageNoStale(s) == s

SetRootPageNo(s) ==
  Store(s, headerPageNum,
        [s.pages[headerPageNum] EXCEPT !.rootPageNo = s.root])

\* faulty variant: the last entry of the full leaf is not moved
UpperHalfShort(currLeaf) ==
  [LeafNode EXCEPT
     !.keyArray = [i \in 0..(LEAF_NUM_KEYS - 1) |->
                     IF i + Half(LEAF_NUM_KEYS) < LEAF_NUM_KEYS - 1
                     THEN currLeaf.keyArray[i + Half(LEAF_NUM_KEYS)]
                     ELSE ZeroKey],
     !.ridArray = [i \in 0..(LEAF_NUM_KEYS - 1) |->
                     IF i + Half(LEAF_NUM_KEYS) < LEAF_NUM_KEYS - 1
                     THEN currLeaf.ridArray[i + Half(LEAF_NUM_KEYS)]
                     ELSE NoRid]]

\* the upper half of a full leaf, moved to the front of a fresh leaf
UpperHalf(currLeaf) ==
  [LeafNode EXCEPT
     !.keyArray = [i \in 0..(LEAF_NUM_KEYS - 1) |->
                     IF i + Half(LEAF_NUM_KEYS) < LEAF_NUM_KEYS
                     THEN currLeaf.keyArray[i + Half(LEAF_NUM_KEYS)]
                     ELSE ZeroKey],
     !.ridArray = [i \in 0..(LEAF_NUM_KEYS - 1) |->
                     IF i + Half(LEAF_NUM_KEYS) < LEAF_NUM_KEYS
                     THEN currLeaf.ridArray[i + Half(LEAF_NUM_KEYS)]
                     ELSE NoRid]]

\* faulty variant: every slot of the full leaf is vacated
LowerHalfAll(currLeaf) ==
  [currLeaf EXCEPT
     !.keyArray = [i \in 0..(LEAF_NUM_KEYS - 1) |-> ZeroKey],
     !.ridArray = [i \in 0..(LEAF_NUM_KEYS - 1) |->
                     [currLeaf.ridArray[i] EXCEPT
                        !.page_number = INVALID_NUMBER]]]

\* faulty variant: the keys of the vacated slots are left in place
LowerHalfKeysKept(currLeaf) ==
  [currLeaf EXCEPT
     !.ridArray = [i \in 0..(LEAF_NUM_KEYS - 1) |->
                     IF i >= Half(LEAF_NUM_KEYS)
                     THEN [currLeaf.ridArray[i] EXCEPT
                             !.page_number = INVALID_NUMBER]
                     ELSE currLeaf.ridArray[i]]]

\* the full leaf once its upper half is vacated
LowerHalf(currLeaf) ==
  [currLeaf EXCEPT
     !.keyArray = [i \in 0..(LEAF_NUM_KEYS - 1) |->
                     IF i >= Half(LEAF_NUM_KEYS) THEN ZeroKey
                     ELSE currLeaf.keyArray[i]],
     !.ridArray = [i \in 0..(LEAF_NUM_KEYS - 1) |->
                     IF i >= Half(LEAF_NUM_KEYS)
                     THEN [currLeaf.ridArray[i] EXCEPT
                             !.page_number = INVALID_NUMBER]
                     ELSE currLeaf.ridArray[i]]]

\* faulty variant: the new pair always goes to the new leaf
PlaceInHalvesRight(cur, new, krid, newPageNum) ==
  <<[cur EXCEPT !.rightSibPageNo = newPageNum],
    [insertInRoomyLeaf(new, krid) EXCEPT
       !.rightSibPageNo = cur.rightSibPageNo]>>

\* placement of the new pair and threading of the siblings:
\* <<currLeaf, newLeaf>>
PlaceInHalves(cur, new, krid, newPageNum) ==
  IF krid.key < new.keyArray[0]
  THEN <<[insertInRoomyLeaf(cur, krid) EXCEPT !.rightSibPageNo = newPageNum],
         [new EXCEPT !.rightSibPageNo = cur.rightSibPageNo]>>
  ELSE <<[cur EXCEPT !.rightSibPageNo = newPageNum],
         [insertInRoomyLeaf(new, krid) EXCEPT
            !.rightSibPageNo = cur.rightSibPageNo]>>

\* the split of a full leaf: <<currLeaf, newLeaf>>
SplitLeaf(currLeaf, krid, newPageNum) ==
  PlaceInHalves(LowerHalf(currLeaf), UpperHalf(currLeaf), krid, newPageNum)

\* faulty variant: the two leaves stay pinned
LeafSplitDoneHeld(s, pageNum, newPageNum, parts) ==
  [Store(Store(s, pageNum, parts[1]), newPageNum, parts[2])
     EXCEPT !.splitKey = [pageNo |-> newPageNum,
                          key |-> parts[2].keyArray[0]],
            !.split = TRUE]

\* both halves are stored, the middle key is handed up, both pages released
LeafSplitDone(s, pageNum, newPageNum, parts) ==
  [unPinPage(
     unPinPage(
       [Store(Store(s, pageNum, parts[1]), newPageNum, parts[2])
          EXCEPT !.splitKey = [pageNo |-> newPageNum,
                               key |-> parts[2].keyArray[0]]],
       pageNum, TRUE),
     newPageNum, TRUE)
   EXCEPT !.split = TRUE]

\* insertInLeaf on a full leaf, from the return of allocatePage
insertInFullLeaf(s, krid, pageNum) ==
  IF s.exc # "none" THEN s
  ELSE LeafSplitDone(s, pageNum, Len(s.pages),
                     SplitLeaf(s.pages[pageNum], krid, Len(s.pages)))

\* insertInLeaf from the return of readPage
insertInPinnedLeaf(s, krid, pageNum) ==
  IF s.exc # "none" THEN s
  ELSE IF isRoomyLeaf(s.pages[pageNum])
  THEN [unPinPage(Store(s, pageNum,
                        insertInRoomyLeaf(s.pages[pageNum], krid)),
                  pageNum, TRUE)
        EXCEPT !.split = FALSE]
  ELSE insertInFullLeaf(allocatePage(s, LeafNode), krid, pageNum)

insertInLeaf(s, krid, pageNum) ==
  insertInPinnedLeaf(readPage(s, pageNum), krid, pageNum)

\* index of the child that insertInSubtree descends into; -1 when no branch
\* of the code makes a call (the local split is then read uninitialised)
RECURSIVE MiddleChild(_, _, _, _)
MiddleChild(node, len, key, i) ==
  IF i >= len - 1 THEN -1
  ELSE IF node.keyArray[i] <= key /\ key < node.keyArray[i + 1] THEN i + 1
  ELSE MiddleChild(node, len, key, i + 1)

InsertChild(node, key) ==
  LET currNodeLen == getNonLeafLength(node) IN
  IF key < node.keyArray[0] THEN 0
  ELSE IF currNodeLen = 0 THEN -1
  ELSE IF key >= node.keyArray[currNodeLen - 1] THEN currNodeLen
  ELSE MiddleChild(node, currNodeLen, key, 0)

\* the split of a full internal node: <<currNode, newNode, midKey>>
SplitNonLeaf(currNode, splitKey) ==
  LET h == Half(NON_LEAF_NUM_KEYS)
      new0 == [NonLeafNode EXCEPT
          !.level = currNode.level,
          !.keyArray = [i \in 0..(NON_LEAF_NUM_KEYS - 1) |->
                          IF i + h < NON_LEAF_NUM_KEYS
                          THEN currNode.keyArray[i + h] ELSE ZeroKey],
          !.pageNoArray = [i \in 0..NON_LEAF_NUM_KEYS |->
                          IF i + h <= NON_LEAF_NUM_KEYS
                          THEN currNode.pageNoArray[i + h]
                          ELSE INVALID_NUMBER]]
      cur0 == [currNode EXCEPT
          !.keyArray = [i \in 0..(NON_LEAF_NUM_KEYS - 1) |->
                          IF i >= h THEN ZeroKey ELSE currNode.keyArray[i]],
          !.pageNoArray = [i \in 0..NON_LEAF_NUM_KEYS |->
                          IF i >= h + 1 THEN INVALID_NUMBER
                          ELSE currNode.pageNoArray[i]]]
  IN IF splitKey.key < new0.keyArray[0]
     THEN \* key should go in old node
       LET cur1 == insertInRoomyNonLeaf(cur0, splitKey)
           currNodeLen == getNonLeafLength(cur1)
           midKey == cur1.keyArray[currNodeLen - 1]
           cur2 == [cur1 EXCEPT !.keyArray[currNodeLen - 1] = ZeroKey,
                                !.pageNoArray[currNodeLen] = INVALID_NUMBER]
           new1 == [new0 EXCEPT !.pageNoArray[0] =
                                   cur1.pageNoArray[currNodeLen]]
       IN <<cur2, new1, midKey>>
     ELSE \* key should go in new node
       LET new1 == insertInRoomyNonLeaf(new0, splitKey)
           midKey == new1.keyArray[0]
           newNodeLength == getNonLeafLength(new1)
           new2 == [new1 EXCEPT
              !.keyArray = [i \in 0..(NON_LEAF_NUM_KEYS - 1) |->
                              IF i = newNodeLength - 1 THEN ZeroKey
                              ELSE IF i < newNodeLength
                              THEN new1.keyArray[i + 1]
                              ELSE new1.keyArray[i]],
              !.pageNoArray = [i \in 0..NON_LEAF_NUM_KEYS |->
                              IF i = newNodeLength THEN INVALID_NUMBER
                              ELSE IF i < newNodeLength
                              THEN new1.pageNoArray[i + 1]
                              ELSE new1.pageNoArray[i]]]
       IN <<cur0, new2, midKey>>

\* faulty variant: a node that was only read is released as dirty
leaveNodeDirty(s, pageNum) ==
  [unPinPage(s, pageNum, TRUE) EXCEPT !.split = FALSE]

\* the way out of insertInSubtree when the child did not split
leaveNode(s, pageNum) ==
  [unPinPage(s, pageNum, FALSE) EXCEPT !.split = FALSE]

\* faulty variant: the new root takes the level of the node that split
NewRootLevelFlat(currNode) == currNode.level

\* the level given to the root made by a root split
NewRootLevel(currNode) == currNode.level + 1

RECURSIVE insertInSubtree(_, _, _)

\* root split, from the return of getHeader: the header records the new
\* root, the new root is filled, and all pages are released
NewRootFilled(s, pageNum, newPageNum, midKey) ==
  IF s.exc # "none" THEN s
  ELSE
    [unPinPage(
       unPinPage(
         unPinPage(
           Store(unPinPage(SetRootPageNo(s), headerPageNum, TRUE),
                 s.root,
                 [NonLeafNode EXCEPT
                    !.keyArray[0] = midKey,
                    !.pageNoArray[0] = pageNum,
                    !.pageNoArray[1] = newPageNum,
                    !.level = NewRootLevel(s.pages[pageNum])]),
           s.root, TRUE),
         pageNum, TRUE),
       newPageNum, TRUE)
     EXCEPT !.split = TRUE]

\* faulty variant: the new root takes the new node as its first child
NewRootSwapped(s, pageNum, newPageNum, midKey) ==
  IF s.exc # "none" THEN s
  ELSE NewRootFilled(getHeader([s EXCEPT !.root = Len(s.pages)]),
                     newPageNum, pageNum, midKey)

\* root split, from the return of allocatePage
NewRoot(s, pageNum, newPageNum, midKey) ==
  IF s.exc # "none" THEN s
  ELSE NewRootFilled(getHeader([s EXCEPT !.root = Len(s.pages)]),
                     pageNum, newPageNum, midKey)

\* a full node once both halves are stored
SplitStored(s, pageNum, newPageNum, midKey) ==
  IF pageNum = s.root
  THEN \* current node is root: make a new root
    NewRoot(allocatePage(s, NonLeafNode), pageNum, newPageNum, midKey)
  ELSE \* pass the middle key up
    [unPinPage(
       unPinPage([s EXCEPT !.splitKey = [pageNo |-> newPageNum,
                                         key |-> midKey]],
                 pageNum, TRUE),
       newPageNum, TRUE)
     EXCEPT !.split = TRUE]

SplitWith(s, pageNum, newPageNum, parts) ==
  SplitStored(Store(Store(s, pageNum, parts[1]), newPageNum, parts[2]),
              pageNum, newPageNum, parts[3])

\* insertInSubtree on a full node, from the return of allocatePage
insertInFullNode(s, pageNum) ==
  IF s.exc # "none" THEN s
  ELSE SplitWith(s, pageNum, Len(s.pages),
                 SplitNonLeaf(s.pages[pageNum], s.splitKey))

\* insertInSubtree from the return of the call on the child
insertInSubtreeUp(s, pageNum) ==
  IF s.exc # "none" THEN s
  ELSE IF ~s.split THEN leaveNode(s, pageNum)
  ELSE IF isRoomyNonLeaf(s.pages[pageNum])
  THEN [unPinPage(Store(s, pageNum,
                        insertInRoomyNonLeaf(s.pages[pageNum], s.splitKey)),
                  pageNum, TRUE)
        EXCEPT !.split = FALSE]
  ELSE insertInFullNode(allocatePage(s, NonLeafNode), pageNum)

\* the call on child c of the pinned node
insertInSubtreeDown(s, krid, pageNum, c) ==
  IF c < 0 THEN Throw(s, "UninitialisedSplit")
  ELSE insertInSubtreeUp(
         IF s.pages[pageNum].level = 1
         THEN insertInLeaf(s, krid, s.pages[pageNum].pageNoArray[c])
         ELSE insertInSubtree(s, krid, s.pages[pageNum].pageNoArray[c]),
         pageNum)

\* insertInSubtree from the return of readPage
insertInPinnedNode(s, krid, pageNum) ==
  IF s.exc # "none" THEN s
  ELSE insertInSubtreeDown(s, krid, pageNum,
                           InsertChild(s.pages[pageNum], krid.key))

insertInSubtree(s, krid, pageNum) ==
  insertInPinnedNode(readPage(s, pageNum), krid, pageNum)

\* first insert: the tail, with the root and both leaves pinned
\* faulty variant: the first pair is stored in the left leaf
FirstInsertFillLeft(s, key, rid, leaf1, leaf2) ==
  unPinPage(
    unPinPage(
      unPinPage(
        SetEntry(
          SetRightSib(
            SetRightSib(SetChild(s, s.root, 1, leaf2), leaf1, leaf2),
            leaf2, INVALID_NUMBER),
          leaf1, 0, key, rid),
        s.root, TRUE),
      leaf1, TRUE),
    leaf2, TRUE)

FirstInsertFill(s, key, rid, leaf1, leaf2) ==
  unPinPage(
    Deref(
      unPinPage(
        Deref(
          unPinPage(
            SetEntry(
              SetRightSib(
                SetRightSib(SetChild(s, s.root, 1, leaf2), leaf1, leaf2),
                leaf2, INVALID_NUMBER),
              leaf2, 0, key, rid),
            s.root, TRUE),
          s.root),     \* rootNode->pageNoArray[0]
        leaf1, TRUE),
      s.root),         \* rootNode->pageNoArray[1]
    leaf2, TRUE)

\* first insert, from the return of the second leaf's allocatePage
FirstInsertLeaf2(s, key, rid, leaf1) ==
  IF s.exc # "none" THEN s
  ELSE FirstInsertFill(s, key, rid, leaf1, Len(s.pages))

\* first insert, from the return of the first leaf's allocatePage
FirstInsertLeaf1(s, key, rid) ==
  IF s.exc # "none" THEN s
  ELSE FirstInsertLeaf2(
         allocatePage(SetChild(s, s.root, 0, Len(s.pages)), LeafNode),
         key, rid, Len(s.pages))

\* first insert, from the return of getHeader
FirstInsertHeader(s, key, rid) ==
  IF s.exc # "none" THEN s
  ELSE FirstInsertLeaf1(
         allocatePage(
           SetKey(unPinPage(SetRootPageNo(s), headerPageNum, TRUE),
                  s.root, 0, key),
           LeafNode),
         key, rid)

\* first insert, from the return of the root's allocatePage
FirstInsertRoot(s, key, rid) ==
  IF s.exc # "none" THEN s
  ELSE FirstInsertHeader(
         getHeader(Store([s EXCEPT !.root = Len(s.pages)], Len(s.pages),
                         [NonLeafNode EXCEPT !.level = 1])),
         key, rid)

insertEntry(s, key, rid) ==
  IF s.root = INVALID_NUMBER
  THEN \* special case: first insert
    FirstInsertRoot(allocatePage(s, NonLeafNode), key, rid)
  ELSE insertInSubtree(s, [rid |-> rid, key |-> key], s.root)

\* -------------------------------------------------------------- the scan
\* currentPageData is the id of the page whose frame the pointer addresses,
\* NullData for NULL, and Garbage while it has never been assigned.
NullData == 0
Garbage == -1

\* faulty variant: the low bound is taken as inclusive whatever lowOp says
matchRangeClosed(s, key) ==
  LET highFit == IF s.highOp = LT THEN key < s.highVal ELSE key <= s.highVal
  IN key >= s.lowVal /\ highFit

matchRange(s, key) ==
  LET lowFit == IF s.lowOp = GT THEN key > s.lowVal ELSE key >= s.lowVal
      highFit == IF s.highOp = LT THEN key < s.highVal ELSE key <= s.highVal
  IN lowFit /\ highFit

\* the value a read of currentPageNum yields: the member is not set by the
\* constructor, so until its first assignment a read yields s.garbage
CurrentPageNum(s) ==
  IF s.currentPageNum = Garbage THEN s.garbage ELSE s.currentPageNum

\* faulty variant: the scan is closed but the leaf stays pinned
endScanKeepPin(s) ==
  IF ~s.scanExecuting THEN Throw(s, "ScanNotInitialized")
  ELSE [s EXCEPT !.scanExecuting = FALSE,
                 !.currentPageNum = INVALID_NUMBER,
                 !.currentPageData = NullData]

\* endScan from the return of unPinPage
CursorCleared(s) ==
  IF s.exc # "none" THEN s
  ELSE [s EXCEPT !.currentPageNum = INVALID_NUMBER,
                 !.currentPageData = NullData]

endScan(s) ==
  IF ~s.scanExecuting THEN Throw(s, "ScanNotInitialized")
  ELSE IF CurrentPageNum(s) # INVALID_NUMBER
  THEN CursorCleared(unPinPage([s EXCEPT !.scanExecuting = FALSE],
                               CurrentPageNum(s), FALSE))
  ELSE [s EXCEPT !.scanExecuting = FALSE]

\* endScan(); throw e;
EndScanAndThrow(s, e) ==
  IF s.exc # "none" THEN s ELSE Throw(s, e)

\* the value of i when the for loop of findInSubtree is left
RECURSIVE FindChild(_, _, _, _, _)
FindChild(node, numKeys, lowOp, lowVal, i) ==
  IF i >= numKeys THEN numKeys
  ELSE IF lowOp = GT
  THEN IF node.keyArray[i] > lowVal THEN i
       ELSE FindChild(node, numKeys, lowOp, lowVal, i + 1)
  ELSE IF i = numKeys - 1
  THEN IF node.keyArray[i] > lowVal THEN i
       ELSE FindChild(node, numKeys, lowOp, lowVal, i + 1)
  ELSE IF node.keyArray[i] = lowVal THEN i + 1
  ELSE IF node.keyArray[i] > lowVal THEN i
  ELSE FindChild(node, numKeys, lowOp, lowVal, i + 1)

\* first slot of the leaf at which the loop of findInLeaf returns:
\* <<"match", i>>, <<"high", i>> or <<"end", numKeys>>
RECURSIVE LeafProbe(_, _, _, _)
LeafProbe(s, node, numKeys, i) ==
  IF i >= numKeys THEN <<"end", numKeys>>
  ELSE IF matchRange(s, node.keyArray[i]) THEN <<"match", i>>
  ELSE IF node.keyArray[i] > s.highVal THEN <<"high", i>>
  ELSE LeafProbe(s, node, numKeys, i + 1)

\* faulty variant: the leaf is not released when the search moves right
leaveLeafPinned(s, currPid) == s

\* faulty variant: the leaf is released as dirty
leaveLeafDirty(s, currPid) == unPinPage(s, currPid, TRUE)

\* the leaf is released when the search moves to its right sibling
leaveLeaf(s, currPid) == unPinPage(s, currPid, FALSE)

RECURSIVE findInLeaf(_, _)

\* findInLeaf from the return of readPage on the right sibling
findInRightSib(s) ==
  IF s.exc # "none" THEN s
  ELSE findInLeaf([s EXCEPT !.currentPageData = s.currentPageNum],
                  s.currentPageNum)

\* findInLeaf from the return of unPinPage
readRightSib(s) ==
  IF s.exc # "none" THEN s
  ELSE findInRightSib(readPage(s, s.currentPageNum))

\* findInLeaf from the end of its loop
LeafProbed(s, currPid, probe) ==
  IF probe[1] = "match"
  THEN [s EXCEPT !.found = TRUE, !.nextEntry = probe[2]]
  ELSE IF probe[1] = "high" THEN s
  ELSE IF s.pages[s.currentPageData].rightSibPageNo # INVALID_NUMBER
  THEN readRightSib(
         leaveLeaf([s EXCEPT !.currentPageNum =
                               s.pages[s.currentPageData].rightSibPageNo],
                   currPid))
  ELSE s

findInLeaf(s, currPid) ==
  LeafProbed(s, currPid,
             LeafProbe(s, s.pages[s.currentPageData],
                       getLeafLength(s.pages[s.currentPageData]), 0))

RECURSIVE findInSubtree(_, _)

\* findInSubtree from the return of findInLeaf
LeafSearched(s) ==
  IF s.exc # "none" THEN s
  ELSE IF ~s.found THEN EndScanAndThrow(endScan(s), "NoSuchKeyFound")
  ELSE s

\* findInSubtree from the return of readPage on the leaf
FirstLeafRead(s) ==
  IF s.exc # "none" THEN s
  ELSE LeafSearched(
         findInLeaf([s EXCEPT !.currentPageData = s.currentPageNum,
                              !.found = FALSE],
                    s.currentPageNum))

\* findInSubtree from the return of unPinPage, right above a leaf
readFirstLeaf(s) ==
  IF s.exc # "none" THEN s
  ELSE FirstLeafRead(readPage(s, s.currentPageNum))

\* findInSubtree from the return of unPinPage, higher up
findBelow(s, child) ==
  IF s.exc # "none" THEN s ELSE findInSubtree(s, child)

\* findInSubtree from the end of its loop
findInNode(s, currPid, i) ==
  IF s.pages[currPid].level # 1
  THEN \* currNode->pageNoArray[i] is read once the node is released
    findBelow(Deref(unPinPage(s, currPid, FALSE), currPid),
              s.pages[currPid].pageNoArray[i])
  ELSE \* is right above a leaf
    readFirstLeaf(
      unPinPage([s EXCEPT !.currentPageNum = s.pages[currPid].pageNoArray[i]],
                currPid, FALSE))

\* findInSubtree from the return of readPage
findInPinnedNode(s, currPid) ==
  IF s.exc # "none" THEN s
  ELSE findInNode(s, currPid,
                  FindChild(s.pages[currPid],
                            getNonLeafLength(s.pages[currPid]),
                            s.lowOp, s.lowVal, 0))

findInSubtree(s, currPid) ==
  findInPinnedNode(readPage(s, currPid), currPid)

\* startScan from its check for bad input
startScanChecked(s, lowValParm, lowOpParm, highValParm, highOpParm) ==
  IF s.exc # "none" THEN s
  ELSE IF lowValParm > highValParm THEN Throw(s, "BadScanrange")
  ELSE IF lowOpParm # GT /\ lowOpParm # GTE THEN Throw(s, "BadOpcodes")
  ELSE IF highOpParm # LT /\ highOpParm # LTE THEN Throw(s, "BadOpcodes")
  ELSE findInSubtree([s EXCEPT !.scanExecuting = TRUE,
                               !.nextEntry = 0,
                               !.lowVal = lowValParm,
                               !.highVal = highValParm,
                               !.lowOp = lowOpParm,
                               !.highOp = highOpParm],
                     s.root)

\* faulty variant: a scan that is executing is not ended
startScanOver(s, lowValParm, lowOpParm, highValParm, highOpParm) ==
  startScanChecked(s, lowValParm, lowOpParm, highValParm, highOpParm)

startScan(s, lowValParm, lowOpParm, highValParm, highOpParm) ==
  startScanChecked(IF s.scanExecuting THEN endScan(s) ELSE s,
                   lowValParm, lowOpParm, highValParm, highOpParm)

\* scanNext from the return of readPage on the next leaf
NextLeafRead(s, nextPageNo) ==
  IF s.exc # "none" THEN s
  ELSE [s EXCEPT !.currentPageData = nextPageNo]

\* scanNext from the return of unPinPage at the end of a leaf
LeafFinished(s, nextPageNo) ==
  IF s.exc # "none" THEN s
  ELSE IF nextPageNo # INVALID_NUMBER
  THEN NextLeafRead(readPage([s EXCEPT !.currentPageNum = nextPageNo],
                             nextPageNo),
                    nextPageNo)
  ELSE [s EXCEPT !.currentPageNum = nextPageNo,
                 !.currentPageData = NullData]

\* scanNext once the entry at nextEntry is handed back in s.outRid
Advance(s, currNode) ==
  IF s.nextEntry = getLeafLength(currNode) - 1
  THEN \* at the end of a leaf
    LeafFinished(unPinPage([s EXCEPT !.nextEntry = 0],
                           s.currentPageNum, FALSE),
                 currNode.rightSibPageNo)
  ELSE [s EXCEPT !.nextEntry = @ + 1]

\* scanNext; the rid handed back is left in s.outRid
scanNext(s) ==
  IF ~s.scanExecuting THEN Throw(s, "ScanNotInitialized")
  ELSE IF CurrentPageNum(s) # INVALID_NUMBER
          /\ s.currentPageData \notin DOMAIN s.pages
  THEN Throw(s, "SEGV")   \* currentPageData is NULL or was never assigned
  ELSE IF CurrentPageNum(s) # INVALID_NUMBER
          /\ matchRange(s, s.pages[s.currentPageData].keyArray[s.nextEntry])
  THEN Advance(Deref([s EXCEPT
                  !.outRid = s.pages[s.currentPageData].ridArray[s.nextEntry],
                  !.outKey = s.pages[s.currentPageData].keyArray[s.nextEntry]],
                  s.currentPageData),
               s.pages[s.currentPageData])
  ELSE EndScanAndThrow(endScan(s), "IndexScanCompleted")

\* the entry scanNext handed back is kept
Fetched(s) ==
  [s EXCEPT !.outs = Append(@, [key |-> s.outKey, rid |-> s.outRid])]

\* stringScan of the test driver: startScan, then scanNext until it raises;
\* NoSuchKeyFound and IndexScanCompleted are caught, anything else propagates.
\* The entries fetched are left in s.outs.
RECURSIVE fetchAll(_)

fetchAllNext(s) ==
  IF s.exc # "none" THEN s ELSE fetchAll(Fetched(s))

fetchAll(s) == fetchAllNext(scanNext(s))

stringScanStarted(s) ==
  IF s.exc # "none" THEN s ELSE fetchAll(s)

stringScan(s, lowValParm, lowOpParm, highValParm, highOpParm) ==
  stringScanStarted(
    startScan(s, lowValParm, lowOpParm, highValParm, highOpParm))

\* a caller that opens a scan, fetches at most n entries and calls endScan
RECURSIVE fetchSome(_, _)

fetchSomeNext(s, n) ==
  IF s.exc # "none" THEN s ELSE fetchSome(Fetched(s), n - 1)

fetchSome(s, n) ==
  IF n = 0 THEN s ELSE fetchSomeNext(scanNext(s), n)

briefScanFetched(s) ==
  IF s.exc # "none" THEN s ELSE endScan(s)

briefScanStarted(s, n) ==
  IF s.exc # "none" THEN s ELSE briefScanFetched(fetchSome(s, n))

briefScan(s, lowValParm, lowOpParm, highValParm, highOpParm, n) ==
  briefScanStarted(
    startScan(s, lowValParm, lowOpParm, highValParm, highOpParm), n)

\* ------------------------------------------------------------- the state
VARIABLES
  pages,            \* contents of the pages of the index file
  pin,              \* pin count of every page in the buffer pool
  rootPageNum,
  scanExecuting, nextEntry, currentPageNum, currentPageData,
  lowVal, highVal, lowOp, highOp,
  op,               \* the public operation that ran last, how it ended, and
                    \* the pin counts it started from
  log,              \* its pin / unpin events
  inserted,         \* (key, rid) pairs handed to insertEntry so far
  out,              \* entries returned by scanNext since the last startScan
  track,            \* "none", or whether entries were inserted since startScan
  scanned,          \* a startScan has passed the argument checks
  late,             \* insertEntry calls made after the first startScan
  rel,              \* shape of the relation loaded so far (runs of records)
  file,             \* name of the index file of the live BTreeIndex object,
                    \* NoFile when there is none
  disk,             \* the other index files: their pages and the pin counts
                    \* the buffer pool keeps for them
  ctor,             \* arguments of the last constructor call, and whether
                    \* it found the index file
  seen,             \* result of the first stringScan run on the live object
                    \* with each argument list
  prior,            \* the same for the object destroyed last, with its
                    \* file, its constructor arguments and the number of
                    \* records inserted until then
  probe             \* an internal node of a build with other array sizes,
                    \* and what insertInSubtree decided for it

vars == <<pages, pin, rootPageNum, scanExecuting, nextEntry, currentPageNum,
          currentPageData, lowVal, highVal, lowOp, highOp, op, log,
          inserted, out, track, scanned, late, rel,
          file, disk, ctor, seen, prior, probe>>

fileVars == <<file, disk, ctor, seen, prior>>

\* the record an operation starts from
Begin(failAt, garbage) ==
  [pages |-> pages, pin |-> pin, pin0 |-> pin, wr |-> {},
   root |-> rootPageNum, log |-> <<>>, exc |-> "none",
   calls |-> 0, failAt |-> failAt, garbage |-> garbage,
   split |-> FALSE, splitKey |-> [pageNo |-> INVALID_NUMBER, key |-> ZeroKey],
   scanExecuting |-> scanExecuting, nextEntry |-> nextEntry,
   currentPageNum |-> currentPageNum, currentPageData |-> currentPageData,
   lowVal |-> lowVal, highVal |-> highVal, lowOp |-> lowOp, highOp |-> highOp,
   found |-> FALSE, outRid |-> NoRid, outKey |-> ZeroKey, outs |-> <<>>,
   stale |-> {}]

\* the state an operation leaves behind
CommitIndex(s, name) ==
  /\ pages' = s.pages
  /\ pin' = s.pin
  /\ rootPageNum' = s.root
  /\ scanExecuting' = s.scanExecuting
  /\ nextEntry' = s.nextEntry
  /\ currentPageNum' = s.currentPageNum
  /\ currentPageData' = s.currentPageData
  /\ lowVal' = s.lowVal
  /\ highVal' = s.highVal
  /\ lowOp' = s.lowOp
  /\ highOp' = s.highOp
  /\ op' = [name |-> name, exc |-> s.exc, pin0 |-> s.pin0,
             stale |-> s.stale]
  /\ log' = s.log
  /\ probe' = probe

\* an operation on the live object other than a constructor or destructor
Commit(s, name) == CommitIndex(s, name) /\ UNCHANGED fileVars

\* std::stringstream << int
RECURSIVE Digits(_)
Digits(n) ==
  IF n < 10 THEN <<48 + n>> ELSE Digits(n \div 10) \o <<48 + (n % 10)>>

\* faulty variant: the file name leaves out the attribute offset
IndexNameOfRelation(name, off) == name \o <<46>>

\* outIndexName: relationName, '.', attrByteOffset
IndexName(name, off) == name \o <<46>> \o Digits(off)

NoFile == <<>>
NoScans == <<>>
NoPrior == [file |-> NoFile, relationName |-> <<>>, attrByteOffset |-> 0,
            results |-> NoScans, n |-> 0]

\* "relA", the relation of the test driver
relationName == <<114, 101, 108, 65>>

RelationNames == {relationName}
AttrByteOffsets == {0}

\* values a read of the never-assigned currentPageNum can yield
UninitPageNums ==
  IF currentPageNum = Garbage THEN {INVALID_NUMBER, headerPageNum}
  ELSE {INVALID_NUMBER}

\* no node is under test: the sizes are those of the DEBUG build
NoProbe ==
  [leafNumKeys |-> LEAF_NUM_KEYS, nonLeafNumKeys |-> NON_LEAF_NUM_KEYS,
   pageNoArray |-> NonLeafNode.pageNoArray, step |-> "none",
   read |-> 0, full |-> FALSE]

\* BTreeIndex::BTreeIndex on a file that does not exist, over an empty relation
InitObject(name, off) ==
  /\ pages = <<IndexMetaInfo(name, off, INVALID_NUMBER)>>
  /\ pin = <<0>>
  /\ rootPageNum = INVALID_NUMBER
  /\ scanExecuting = FALSE
  /\ nextEntry = 0
  /\ currentPageNum = Garbage
  /\ currentPageData = Garbage
  /\ lowVal = ZeroKey
  /\ highVal = ZeroKey
  /\ lowOp = GTE
  /\ highOp = LTE
  /\ op = [name |-> "BTreeIndex", exc |-> "none", pin0 |-> <<>>,
            stale |-> {}]
  /\ log = <<[ev |-> "pin", page |-> headerPageNum, dirty |-> FALSE,
              written |-> FALSE, held |-> 1, leafPins |-> 0],
             [ev |-> "unpin", page |-> headerPageNum, dirty |-> TRUE,
              written |-> TRUE, held |-> 0, leafPins |-> 0]>>
  /\ inserted = {}
  /\ out = <<>>
  /\ track = "none"
  /\ scanned = FALSE
  /\ late = 0
  /\ rel = [kind |-> "none", runs |-> 0, last |-> ZeroKey]
  /\ file = IndexName(name, off)
  /\ disk = <<>>
  /\ ctor = [relationName |-> name, attrByteOffset |-> off,
             existed |-> FALSE, opens |-> 0, stream |-> <<>>]
  /\ seen = NoScans
  /\ prior = NoPrior

InitWith(name, off) == InitObject(name, off) /\ probe = NoProbe

Init == \E name \in RelationNames, off \in AttrByteOffsets : InitWith(name, off)

Alive == op.exc # "SEGV"

Occurrences(key) == Cardinality({e \in inserted : e.key = key})

\* the record id of the next record with this key
NextRid(key) == [page_number |-> key, slot_number |-> Occurrences(key) + 1]

\* ---------------------------------------------- the public operations
InsertWith(key, failAt) ==
  /\ Alive
  /\ LET rid == NextRid(key)
         s == insertEntry(Begin(failAt, INVALID_NUMBER), key, rid)
     IN /\ Commit(s, "insertEntry")
        /\ inserted' = IF s.exc = "none"
                       THEN inserted \cup {[key |-> key, rid |-> rid]}
                       ELSE inserted
        /\ out' = out
        /\ track' = IF track = "none" THEN "none" ELSE "dirty"
        /\ late' = IF scanned THEN late + 1 ELSE late
        /\ UNCHANGED scanned

StartScanWith(lo, loOp, hi, hiOp, failAt, garbage) ==
  /\ Alive
  /\ LET s == startScan(Begin(failAt, garbage), lo, loOp, hi, hiOp)
     IN /\ Commit(s, "startScan")
        /\ out' = <<>>
        /\ track' = IF s.exc = "none" THEN "clean" ELSE "none"
        /\ scanned' = (scanned \/ s.lowVal # ZeroKey)
        /\ UNCHANGED <<inserted, late, rel>>

ScanNextWith(failAt, garbage) ==
  /\ Alive
  /\ LET s == scanNext(Begin(failAt, garbage))
     IN /\ Commit(s, "scanNext")
        /\ out' = IF s.exc = "none"
                  THEN Append(out, [key |-> s.outKey, rid |-> s.outRid])
                  ELSE out
        /\ track' = IF s.scanExecuting /\ s.exc = "none" THEN track
                    ELSE "none"
        /\ UNCHANGED <<inserted, scanned, late, rel>>

EndScanWith(failAt, garbage) ==
  /\ Alive
  /\ LET s == endScan(Begin(failAt, garbage))
     IN /\ Commit(s, "endScan")
        /\ track' = "none"
        /\ UNCHANGED <<inserted, out, scanned, late, rel>>

\* --------------------------------------- Spec: the operations one by one
MaxKey == 3          \* inserted keys are 2..MaxKey, scan bounds 1..MaxKey+1
MaxInserts == 5      \* insertEntry calls per behaviour
MaxLate == 1         \* of these, calls made after the first startScan

Keys == 2..MaxKey
ScanVals == 1..(MaxKey + 1)

\* well-formed argument lists, and one for each way to be rejected
GoodArgs ==
  {a \in ScanVals \X {GT, GTE} \X ScanVals \X {LT, LTE} : a[1] <= a[3]}

BadArgs ==
  {<<3, GTE, 2, LTE>>, <<2, LT, 2, LTE>>, <<2, GTE, 2, GT>>, <<3, LTE, 2, GT>>}

Insert ==
  \E key \in Keys :
     /\ Cardinality(inserted) < MaxInserts
     /\ scanned => late < MaxLate
     /\ InsertWith(key, 0)
     /\ UNCHANGED rel

\* a behaviour scans one range, any number of times; rejected calls are free
StartScan ==
  \E a \in GoodArgs \cup BadArgs, g \in UninitPageNums :
     /\ scanned /\ a \in GoodArgs => a = <<lowVal, lowOp, highVal, highOp>>
     /\ StartScanWith(a[1], a[2], a[3], a[4], 0, g)

ScanNext == \E g \in UninitPageNums : ScanNextWith(0, g)

EndScan == \E g \in UninitPageNums : EndScanWith(0, g)

Next == Insert \/ StartScan \/ ScanNext \/ EndScan

Spec == Init /\ [][Next]_vars

\* ------------------- SpecRel: an index loaded from a relation, then scanned
\* The relation is made of runs of records: keys ascending, keys descending,
\* or the key of the record before repeated.
MaxRel == 18         \* records of the relation
MaxRuns == 2         \* runs the relation is made of
MaxScanned == 12     \* records of a relation that is scanned
MaxFetch == 1        \* entries fetched by a scan that is ended early

FirstKey == MaxRel + 1

InsertedKeys == {e.key : e \in inserted}

MinKey == CHOOSE k \in InsertedKeys : \A j \in InsertedKeys : k <= j
MaxInsertedKey == CHOOSE k \in InsertedKeys : \A j \in InsertedKeys : k >= j

\* the key of the next record of a run of this kind
RunKey(kind) ==
  IF inserted = {} THEN FirstKey
  ELSE IF kind = "asc" THEN MaxInsertedKey + 1
  ELSE IF kind = "desc" THEN MinKey - 1
  ELSE rel.last

InsertRel ==
  \E kind \in {"asc", "desc", "dup"} :
     /\ ~scanned
     /\ Cardinality(inserted) < MaxRel
     /\ inserted = {} => kind = "asc"
     /\ LET runs == IF rel.kind \in {"none", "first", kind} THEN rel.runs
                    ELSE rel.runs + 1
        IN /\ runs <= MaxRuns
           /\ rel' = [kind |-> IF inserted = {} THEN "first" ELSE kind,
                      runs |-> IF inserted = {} THEN 1 ELSE runs,
                      last |-> RunKey(kind)]
     /\ InsertWith(RunKey(kind), 0)

\* ranges around the keys of the relation
RelVals ==
  IF inserted = {} THEN {FirstKey} ELSE (MinKey - 1)..(MaxInsertedKey + 1)

RelArgs ==
  {a \in RelVals \X {GT, GTE} \X RelVals \X {LT, LTE} : a[1] <= a[3]}

\* a scan opened on a built tree assigns currentPageNum before it reads it,
\* so what the member held before matters on the empty index only
RelUninit ==
  IF rootPageNum = INVALID_NUMBER THEN UninitPageNums ELSE {INVALID_NUMBER}

StringScan ==
  \E a \in RelArgs, g \in RelUninit :
     /\ Alive
     /\ ~scanned
     /\ Cardinality(inserted) <= MaxScanned
     /\ LET s == stringScan(Begin(0, g), a[1], a[2], a[3], a[4])
        IN /\ Commit(s, "stringScan")
           /\ out' = s.outs
     /\ track' = "none"
     /\ scanned' = TRUE
     /\ UNCHANGED <<inserted, late, rel>>

BriefScan ==
  \E a \in RelArgs, n \in 0..MaxFetch, g \in RelUninit :
     /\ a[2] = GTE /\ a[4] = LTE
     /\ Alive
     /\ ~scanned
     /\ Cardinality(inserted) <= MaxScanned
     /\ LET s == briefScan(Begin(0, g), a[1], a[2], a[3], a[4], n)
        IN /\ Commit(s, "briefScan")
           /\ out' = s.outs
     /\ track' = "none"
     /\ scanned' = TRUE
     /\ UNCHANGED <<inserted, late, rel>>

NextRel == InsertRel \/ StringScan \/ BriefScan

SpecRel == Init /\ [][NextRel]_vars

\* ------------- SpecF: one readPage / allocatePage call of a behaviour fails
MaxFail == 4         \* the failing call is among the first MaxFail of the operation

InsertF ==
  \E key \in Keys, failAt \in 0..MaxFail :
     /\ op.exc # "BufferExceeded"
     /\ Cardinality(inserted) < MaxInserts
     /\ scanned => late < MaxLate
     /\ InsertWith(key, failAt)
     /\ UNCHANGED rel

StartScanF ==
  \E a \in GoodArgs, failAt \in 1..MaxFail, g \in UninitPageNums :
     /\ op.exc # "BufferExceeded"
     /\ ~scanned
     /\ StartScanWith(a[1], a[2], a[3], a[4], failAt, g)

NextF == InsertF \/ StartScanF

SpecF == Init /\ [][NextF]_vars

\* SpecIns: the relation is loaded and nothing else happens
NextIns == InsertRel

SpecIns == Init /\ [][NextIns]_vars

\* ------------------------------- SpecFile: index files closed and reopened
\* a file that was just created
NewFile == [pages |-> <<>>, pin |-> <<>>]

\* the members as the constructor leaves them before it opens the file;
\* currentPageNum, currentPageData and the range members are not assigned
FreshIndex(f) ==
  [pages |-> f.pages, pin |-> f.pin, pin0 |-> f.pin, wr |-> {},
   root |-> INVALID_NUMBER, log |-> <<>>, exc |-> "none",
   calls |-> 0, failAt |-> 0, garbage |-> INVALID_NUMBER,
   split |-> FALSE, splitKey |-> [pageNo |-> INVALID_NUMBER, key |-> ZeroKey],
   scanExecuting |-> FALSE, nextEntry |-> 0,
   currentPageNum |-> Garbage, currentPageData |-> Garbage,
   lowVal |-> ZeroKey, highVal |-> ZeroKey, lowOp |-> GTE, highOp |-> LTE,
   found |-> FALSE, outRid |-> NoRid, outKey |-> ZeroKey, outs |-> <<>>,
   stale |-> {}]

\* the header check of the load path: the exception leaves through the
\* constructor with the header page still pinned
VerifyHeader(s, name, off) ==
  IF strcmp(HeaderBytes(s.pages[headerPageNum]), name) # 0
  THEN Throw(s, "BadIndexInfo")
  ELSE IF s.pages[headerPageNum].attrByteOffset # off
  THEN Throw(s, "BadIndexInfo")
  ELSE s

\* load path, from the header check
HeaderVerified(s) ==
  IF s.exc # "none" THEN s ELSE unPinPage(s, headerPageNum, FALSE)

\* load path, from the return of getHeader
LoadIndex(s, name, off) ==
  IF s.exc # "none" THEN s
  ELSE HeaderVerified(
         VerifyHeader([s EXCEPT !.root = s.pages[headerPageNum].rootPageNo],
                      name, off))

\* faulty variant: the loop ends after the first record
BuildFromFirst(s, recs) ==
  IF recs = <<>> THEN s ELSE insertEntry(s, Head(recs).key, Head(recs).rid)

\* the build loop: insertEntry for every record of the relation
RECURSIVE BuildFrom(_, _)

BuildNext(s, recs) ==
  IF s.exc # "none" THEN s ELSE BuildFrom(s, recs)

BuildFrom(s, recs) ==
  IF recs = <<>> THEN s
  ELSE BuildNext(insertEntry(s, Head(recs).key, Head(recs).rid), Tail(recs))

\* build path, from the end of the loop
IndexBuilt(s) ==
  IF s.exc # "none" THEN s ELSE unPinPage(s, headerPageNum, TRUE)

\* build path, from the return of allocatePage; FileScanner raises
\* FileNotFound when there is no relation of that name
BuildIndex(s, name, off, relation) ==
  IF s.exc # "none" THEN s
  ELSE IF ~relation.exists
  THEN Throw(Store(s, headerPageNum, IndexMetaInfo(name, off, s.root)),
             "FileNotFound")
  ELSE IndexBuilt(
         BuildFrom(Store(s, headerPageNum, IndexMetaInfo(name, off, s.root)),
                   relation.recs))

\* BTreeIndex::BTreeIndex; f is the index file when it exists
BTreeIndex(exists, f, name, off, relation) ==
  IF exists
  THEN LoadIndex(getHeader(FreshIndex(f)), name, off)
  ELSE BuildIndex(allocatePage(FreshIndex(NewFile),
                               IndexMetaInfo(<<>>, 0, INVALID_NUMBER)),
                  name, off, relation)

\* BufferManager::flushFile: the dirty pages of the file are written; a page
\* of the file that is still pinned makes it raise PagePinned
flushFile(s) ==
  IF s.exc # "none" THEN s
  ELSE IF \E p \in DOMAIN s.pin : s.pin[p] > 0 THEN Throw(s, "PagePinned")
  ELSE s

\* BTreeIndex::~BTreeIndex
Destructor(s) ==
  flushFile(IF s.scanExecuting THEN endScan(s) ELSE s)

MaxOpens == 2        \* constructor calls of a behaviour after the first
MaxFileRecs == 11    \* records inserted into the index files of a behaviour

\* a second relation name, of exactly RELATION_NAME_SIZE characters
LongName == [i \in 1..RELATION_NAME_SIZE |-> 120]

FileRelationNames == {relationName, LongName}

\* 16 is offsetof(tuple, s) of the test driver
FileOffsets == {0, 16}

NextFileKey == FirstKey + Cardinality(inserted)

\* the relation the FileScanner of a build finds: none, an empty one, or
\* one record
Relations ==
  {[exists |-> FALSE, recs |-> <<>>], [exists |-> TRUE, recs |-> <<>>]}
  \cup (IF Cardinality(inserted) < MaxFileRecs
        THEN {[exists |-> TRUE,
               recs |-> <<[key |-> NextFileKey,
                           rid |-> NextRid(NextFileKey)]>>]}
        ELSE {})

\* the range scanned: all keys but the first and the last
FileArgs == {<<FirstKey, GT, FirstKey + MaxFileRecs - 1, LT>>}

Put(f, x, y) == (x :> y) @@ f

Without(f, x) == [y \in DOMAIN f \ {x} |-> f[y]]

InitFile ==
  \E name \in FileRelationNames, off \in FileOffsets : InitWith(name, off)

\* the outcome of a constructor call that named the file fn
Constructed(s, fn, name, off, exists, relation) ==
  /\ CommitIndex(s, "BTreeIndex")
  /\ file' = IF s.exc = "none" THEN fn ELSE NoFile
  /\ disk' = IF s.exc = "none" THEN Without(disk, fn)
             ELSE Put(disk, fn, [pages |-> s.pages, pin |-> s.pin])
  /\ ctor' = [relationName |-> name, attrByteOffset |-> off,
              existed |-> exists, opens |-> ctor.opens + 1,
              stream |-> IF exists THEN <<>> ELSE relation.recs]
  /\ inserted' = IF exists \/ s.exc # "none" THEN inserted
                 ELSE inserted \cup {relation.recs[i] :
                                        i \in 1..Len(relation.recs)}
  /\ out' = <<>>
  /\ track' = "none"
  /\ seen' = NoScans
  /\ UNCHANGED <<scanned, late, rel, prior>>

\* a constructor call follows a destructor that returned: an exception
\* that leaves a destructor ends the program
Construct ==
  \E name \in FileRelationNames, off \in FileOffsets, relation \in Relations :
     /\ Alive
     /\ file = NoFile
     /\ op.name = "~BTreeIndex" /\ op.exc = "none"
     /\ ctor.opens < MaxOpens
     /\ IF IndexName(name, off) \in DOMAIN disk
        THEN Constructed(BTreeIndex(TRUE, disk[IndexName(name, off)],
                                    name, off, relation),
                         IndexName(name, off), name, off, TRUE, relation)
        ELSE Constructed(BTreeIndex(FALSE, NewFile, name, off, relation),
                         IndexName(name, off), name, off, FALSE, relation)

\* the outcome of the destructor
Destroyed(s) ==
  /\ CommitIndex(s, "~BTreeIndex")
  /\ disk' = Put(disk, file, [pages |-> s.pages, pin |-> s.pin])
  /\ file' = NoFile
  /\ prior' = [file |-> file, relationName |-> ctor.relationName,
               attrByteOffset |-> ctor.attrByteOffset,
               results |-> seen, n |-> Cardinality(inserted)]
  /\ seen' = NoScans
  /\ track' = "none"
  /\ UNCHANGED <<ctor, inserted, out, scanned, late, rel>>

Destroy ==
  \E g \in UninitPageNums :
     /\ Alive
     /\ file # NoFile
     /\ Destroyed(Destructor(Begin(0, g)))

\* the outcome of a stringScan run with arguments a
FileScanned(s, a) ==
  /\ CommitIndex(s, "stringScan")
  /\ out' = s.outs
  /\ seen' = IF a \in DOMAIN seen THEN seen
             ELSE Put(seen, a, [out |-> s.outs, exc |-> s.exc])
  /\ track' = "none"
  /\ UNCHANGED <<inserted, scanned, late, rel, file, disk, ctor, prior>>

FileScan ==
  \E a \in FileArgs, g \in RelUninit :
     /\ Alive
     /\ file # NoFile
     /\ FileScanned(stringScan(Begin(0, g), a[1], a[2], a[3], a[4]), a)

\* the records of an object are inserted before it is scanned
FileInsert ==
  /\ file # NoFile
  /\ seen = NoScans
  /\ ctor.opens = 0 \/ ctor.existed
  /\ Cardinality(inserted) < MaxFileRecs
  /\ InsertWith(NextFileKey, 0)
  /\ UNCHANGED rel

NextFile == FileInsert \/ FileScan \/ Destroy \/ Construct

SpecFile == InitFile /\ [][NextFile]_vars

\* ------------- SpecScan: a relation is loaded, then scans are opened,
\* advanced, ended and opened again
MaxScanRecs == 6     \* records of the relation

ScanInsert ==
  /\ Cardinality(inserted) < MaxScanRecs
  /\ InsertRel

\* scan bounds next to the least and the greatest key of the relation
ScanBounds ==
  IF inserted = {} THEN {FirstKey}
  ELSE {MinKey - 1, MinKey + 1, MaxInsertedKey + 1}

\* open and closed ranges between them
ScanArgs ==
  {a \in ScanBounds \X {GT, GTE} \X ScanBounds \X {LT, LTE} :
      a[1] <= a[3] /\ (a[2] = GT <=> a[4] = LT)}

ScanStart ==
  \E a \in ScanArgs \cup BadArgs, g \in UninitPageNums :
     StartScanWith(a[1], a[2], a[3], a[4], 0, g)

NextScan == ScanInsert \/ ScanStart \/ ScanNext \/ EndScan

SpecScan == Init /\ [][NextScan]_vars

\* ------------- SpecPerm: entries with distinct keys are inserted in any
\* order, then the index is scanned
MaxPerm == 7         \* keys of the entries

PermKeys == FirstKey..(FirstKey + MaxPerm - 1)

\* scan bounds below, inside and above the keys
PermBounds == {FirstKey - 1, FirstKey + 2, FirstKey + MaxPerm}

PermArgs ==
  {a \in PermBounds \X {GT, GTE} \X PermBounds \X {LT, LTE} : a[1] <= a[3]}

PermInsert ==
  \E key \in PermKeys :
     /\ ~scanned
     /\ Occurrences(key) = 0
     /\ InsertWith(key, 0)
     /\ UNCHANGED rel

PermScan ==
  \E a \in PermArgs, g \in RelUninit :
     /\ Alive
     /\ ~scanned
     /\ LET s == stringScan(Begin(0, g), a[1], a[2], a[3], a[4])
        IN /\ Commit(s, "stringScan")
           /\ out' = s.outs
     /\ track' = "none"
     /\ scanned' = TRUE
     /\ UNCHANGED <<inserted, late, rel>>

NextPerm == PermInsert \/ PermScan

SpecPerm == Init /\ [][NextPerm]_vars

\* ------------------------------ the constructor over a stored relation
MaxStream == 5       \* records of the relation
MaxStreamKeys == 3   \* distinct keys of the relation

StreamKeys == FirstKey..(FirstKey + MaxStreamKeys - 1)

\* the records a FileScanner streams for a relation with these keys
StreamOf(keys) ==
  [i \in 1..Len(keys) |->
     [key |-> keys[i],
      rid |-> [page_number |-> keys[i],
               slot_number |-> Cardinality({j \in 1..i : keys[j] = keys[i]})]]]

Streams == UNION {[1..n -> StreamKeys] : n \in 0..MaxStream}

\* the object as the constructor call that produced s leaves it
InitFrom(s, name, off, recs) ==
  /\ pages = s.pages
  /\ pin = s.pin
  /\ rootPageNum = s.root
  /\ scanExecuting = s.scanExecuting
  /\ nextEntry = s.nextEntry
  /\ currentPageNum = s.currentPageNum
  /\ currentPageData = s.currentPageData
  /\ lowVal = s.lowVal
  /\ highVal = s.highVal
  /\ lowOp = s.lowOp
  /\ highOp = s.highOp
  /\ op = [name |-> "BTreeIndex", exc |-> s.exc, pin0 |-> s.pin0,
            stale |-> s.stale]
  /\ log = s.log
  /\ inserted = {recs[i] : i \in 1..Len(recs)}
  /\ out = <<>>
  /\ track = "none"
  /\ scanned = FALSE
  /\ late = 0
  /\ rel = [kind |-> "none", runs |-> 0, last |-> ZeroKey]
  /\ file = IndexName(name, off)
  /\ disk = <<>>
  /\ ctor = [relationName |-> name, attrByteOffset |-> off,
             existed |-> FALSE, opens |-> 0, stream |-> recs]
  /\ seen = NoScans
  /\ prior = NoPrior
  /\ probe = NoProbe

\* BTreeIndex::BTreeIndex on a file that does not exist, over a relation
\* of up to MaxStream records
InitBuild ==
  \E keys \in Streams, off \in FileOffsets :
     InitFrom(BTreeIndex(FALSE, NewFile, relationName, off,
                         [exists |-> TRUE, recs |-> StreamOf(keys)]),
              relationName, off, StreamOf(keys))

\* the ranges scanned: all keys, and all keys but the first and the last
BuildArgs ==
  {<<FirstKey, GTE, FirstKey + MaxStreamKeys - 1, LTE>>,
   <<FirstKey, GT, FirstKey + MaxStreamKeys - 1, LT>>}

BuildScan ==
  \E a \in BuildArgs, g \in RelUninit :
     /\ Alive
     /\ ~scanned
     /\ LET s == stringScan(Begin(0, g), a[1], a[2], a[3], a[4])
        IN /\ Commit(s, "stringScan")
           /\ out' = s.outs
     /\ track' = "none"
     /\ scanned' = TRUE
     /\ UNCHANGED <<inserted, late, rel>>

NextBuild == BuildScan

SpecBuild == InitBuild /\ [][NextBuild]_vars

\* ------------------- the full test of internal nodes, for any array sizes
MaxNumKeys == 6      \* LEAF_NUM_KEYS and NON_LEAF_NUM_KEYS of a build

NumKeys == 1..MaxNumKeys

\* pageNoArray of an internal node with len router keys, of a build whose
\* NON_LEAF_NUM_KEYS is nonLeafNumKeys
PageNoArrayOf(nonLeafNumKeys, len) ==
  [i \in 0..nonLeafNumKeys |->
     IF i <= len THEN headerPageNum + 1 + i ELSE INVALID_NUMBER]

\* a child of the node has split: insertInSubtree is about to test it
InitSizes ==
  \E leafNumKeys \in NumKeys, nonLeafNumKeys \in NumKeys :
    \E len \in 1..nonLeafNumKeys :
       /\ InitObject(relationName, 0)
       /\ probe = [leafNumKeys |-> leafNumKeys,
                   nonLeafNumKeys |-> nonLeafNumKeys,
                   pageNoArray |-> PageNoArrayOf(nonLeafNumKeys, len),
                   step |-> "split", read |-> 0, full |-> FALSE]

\* insertInSubtree, from the return of the call on the child that split:
\* the node absorbs the pair or is split
TestNode ==
  \E outside \in BOOLEAN :
     /\ probe.step = "split"
     /\ probe.leafNumKeys \in DOMAIN probe.pageNoArray => outside
     /\ probe' = [probe EXCEPT
                    !.step = "tested",
                    !.read = probe.leafNumKeys,
                    !.full = ~RoomyNonLeafAt(probe.pageNoArray,
                                             probe.leafNumKeys, outside)]
     /\ UNCHANGED <<pages, pin, rootPageNum, scanExecuting, nextEntry,
                    currentPageNum, currentPageData, lowVal, highVal, lowOp,
                    highOp, op, log, inserted, out, track, scanned, late,
                    rel, file, disk, ctor, seen, prior>>

NextSizes == TestNode

SpecSizes == InitSizes /\ [][NextSizes]_vars

\* ------------------------------------------------- reading the tree back
NumChildren(node) == getNonLeafLength(node) + 1

\* leaves below page p, left to right
RECURSIVE LeavesBelow(_)
LeavesBelow(p) ==
  LET node == pages[p]
      RECURSIVE Cat(_)
      Cat(i) == IF i >= NumChildren(node) THEN <<>>
                ELSE LeavesBelow(node.pageNoArray[i]) \o Cat(i + 1)
  IN IF node.type = "leaf" THEN <<p>> ELSE Cat(0)

TreeLeaves ==
  IF rootPageNum = INVALID_NUMBER THEN <<>> ELSE LeavesBelow(rootPageNum)

\* keys stored in a leaf, slot by slot
LeafKeys(p) ==
  [i \in 1..getLeafLength(pages[p]) |-> pages[p].keyArray[i - 1]]

LeafEntries(p) ==
  {[key |-> pages[p].keyArray[i], rid |-> pages[p].ridArray[i]] :
      i \in 0..(getLeafLength(pages[p]) - 1)}

\* keys stored in the subtree of page p
KeysBelow(p) ==
  LET ls == LeavesBelow(p)
  IN UNION {{e.key : e \in LeafEntries(ls[i])} : i \in 1..Len(ls)}

\* internal nodes of the tree
RECURSIVE NodesBelow(_)
NodesBelow(p) ==
  LET node == pages[p] IN
  IF node.type = "leaf" THEN {}
  ELSE {p} \cup UNION {NodesBelow(node.pageNoArray[i]) :
                          i \in 0..(NumChildren(node) - 1)}

TreeNodes ==
  IF rootPageNum = INVALID_NUMBER THEN {} ELSE NodesBelow(rootPageNum)

\* the leaf reached through pageNoArray[0] at every level
RECURSIVE LeftmostLeaf(_)
LeftmostLeaf(p) ==
  IF pages[p].type = "leaf" THEN p
  ELSE LeftmostLeaf(pages[p].pageNoArray[0])

\* the leaves met following rightSibPageNo from leaf p, for at most n hops
RECURSIVE ChainFrom(_, _)
ChainFrom(p, n) ==
  IF p = INVALID_NUMBER \/ n = 0 THEN <<>>
  ELSE <<p>> \o ChainFrom(pages[p].rightSibPageNo, n - 1)

SiblingChain ==
  IF rootPageNum = INVALID_NUMBER THEN <<>>
  ELSE ChainFrom(LeftmostLeaf(rootPageNum), Len(pages) + 1)

RECURSIVE Flatten(_)
Flatten(seqs) ==
  IF seqs = <<>> THEN <<>> ELSE Head(seqs) \o Flatten(Tail(seqs))

IsSorted(seq) == \A i \in 1..(Len(seq) - 1) : seq[i] <= seq[i + 1]

Range(seq) == {seq[i] : i \in 1..Len(seq)}

DistinctKeys == \A e, f \in inserted : e.key = f.key => e = f

\* what the operators of the range of the last scan mean
InRange(key) ==
  /\ (lowOp = GT => key > lowVal) /\ (lowOp = GTE => key >= lowVal)
  /\ (highOp = LT => key < highVal) /\ (highOp = LTE => key <= highVal)

Matching == {e \in inserted : InRange(e.key)}

RootLevel ==
  IF rootPageNum = INVALID_NUMBER THEN 0 ELSE pages[rootPageNum].level

\* ------------------------------------------------------------ the claims

\* C1  Range correctness.  A relation of pairwise-distinct keys is loaded in
\* any order of the family; the range is well formed and at least one key
\* satisfies it.  startScan followed by scanNext until IndexScanCompleted
\* hands back exactly the entries whose key satisfies matchRange, each
\* exactly once.
RangeCorrectness ==
  (op.name = "stringScan" /\ DistinctKeys /\ Matching # {})
    => /\ op.exc = "IndexScanCompleted"
       /\ Range(out) = Matching
       /\ Len(out) = Cardinality(Matching)

\* a scan with open ends over a two-level tree that crossed leaves and kept
\* some keys out at both ends
RangeCorrectnessWitness ==
  /\ op.name = "stringScan"
  /\ op.exc = "IndexScanCompleted"
  /\ DistinctKeys
  /\ RootLevel = 2
  /\ lowOp = GT /\ highOp = LT
  /\ Len(out) >= 6
  /\ Cardinality(Matching) < Cardinality(inserted) - 2

\* C2  Round trip.  For any relation, equal keys included, the scan
\* [min, max] with GTE / LTE hands back every inserted pair exactly once.
RoundTrip ==
  (/\ op.name = "stringScan"
   /\ inserted # {}
   /\ lowOp = GTE /\ highOp = LTE
   /\ lowVal = MinKey /\ highVal = MaxInsertedKey)
    => /\ Range(out) = inserted
       /\ Len(out) = Cardinality(inserted)

\* C3  Scan order.  The keys handed back by successive scanNext calls of one
\* scan never decrease, within a leaf and from one leaf to the next.
ScanOrder ==
  op.name \in {"stringScan", "briefScan"}
    => IsSorted([i \in 1..Len(out) |-> out[i].key])

\* C4  Router invariant.  After any sequence of inserts, for every internal
\* node and every occupied router i, the keys below pageNoArray[i] are
\* strictly less than keyArray[i] and the keys below pageNoArray[i+1] are
\* greater than or equal to it.
RouterInvariant ==
  \A p \in TreeNodes :
    \A i \in 0..(getNonLeafLength(pages[p]) - 1) :
      /\ \A k \in KeysBelow(pages[p].pageNoArray[i]) :
            k < pages[p].keyArray[i]
      /\ \A k \in KeysBelow(pages[p].pageNoArray[i + 1]) :
            k >= pages[p].keyArray[i]

\* C5  Height balance.  After any sequence of inserts every leaf lies
\* root.level steps below the root, and the level of every internal node is
\* one more than the level of its internal children; the children of a
\* level 1 node are leaves.
RECURSIVE Balanced(_, _)
Balanced(p, level) ==
  /\ level >= 1
  /\ pages[p].type = "nonleaf"
  /\ pages[p].level = level
  /\ \A i \in 0..(NumChildren(pages[p]) - 1) :
        LET c == pages[p].pageNoArray[i] IN
        /\ c \in DOMAIN pages
        /\ IF level = 1 THEN pages[c].type = "leaf"
           ELSE Balanced(c, level - 1)

HeightBalance ==
  rootPageNum # INVALID_NUMBER
    => Balanced(rootPageNum, pages[rootPageNum].level)

\* after the root has split and a node below the new root has split again
HeightBalanceWitness ==
  /\ op.name = "insertEntry"
  /\ RootLevel = 2
  /\ NumChildren(pages[rootPageNum]) >= 3
  /\ Len(TreeLeaves) >= 7

\* C6  Sibling chain.  After any sequence of inserts, following
\* rightSibPageNo from the leftmost leaf visits every leaf of the tree once,
\* in the left-to-right order of the tree, with keys ascending along the
\* chain, and ends at a leaf whose rightSibPageNo is INVALID_NUMBER.
SiblingChainOrder ==
  /\ SiblingChain = TreeLeaves
  /\ IsSorted(Flatten([i \in 1..Len(SiblingChain) |->
                          LeafKeys(SiblingChain[i])]))

PinBefore(p) == IF p \in DOMAIN op.pin0 THEN op.pin0[p] ELSE 0

PinsRestored == \A p \in DOMAIN pin : pin[p] = PinBefore(p)

Events(kind) == {i \in 1..Len(log) : log[i].ev = kind}

\* C7  Pin balance.  When insertEntry returns, and when a scan has ended (by
\* endScan, by a scanNext that raised IndexScanCompleted, or by a startScan
\* that raised NoSuchKeyFound), every page has the pin count it had before
\* the insert, respectively before the startScan, and no page was unpinned
\* while its pin count was zero.
PinBalance ==
  (\/ op.name = "insertEntry" /\ op.exc = "none"
   \/ op.name = "stringScan"
        /\ op.exc \in {"IndexScanCompleted", "NoSuchKeyFound"}
   \/ op.name = "briefScan"
        /\ op.exc \in {"none", "IndexScanCompleted", "NoSuchKeyFound"})
    => PinsRestored /\ Events("underpin") = {}

\* an insert that split a leaf and the node above it, below a root that had
\* room for the key passed up
PinBalanceWitness ==
  /\ op.name = "insertEntry" /\ op.exc = "none"
  /\ RootLevel = 2
  /\ Len(pages) = Len(op.pin0) + 2
  /\ Cardinality(Events("pin")) = 5
  /\ PinsRestored

\* C8  Scan cursor pin.  At every moment of a scan operation at most one
\* leaf is pinned; between a successful startScan and the end of the scan
\* the cursor holds exactly one pin, on the leaf named by currentPageNum,
\* when it is positioned on a leaf, and none when it has run off the
\* rightmost leaf (currentPageNum = INVALID_NUMBER).
TotalPins ==
  LET RECURSIVE Sum(_)
      Sum(i) == IF i = 0 THEN 0 ELSE pin[i] + Sum(i - 1)
  IN Sum(Len(pin))

CursorPin ==
  /\ op.name \in {"startScan", "scanNext", "endScan"}
        => \A i \in 1..Len(log) : log[i].leafPins <= 1
  /\ track # "none"
        => IF currentPageNum = INVALID_NUMBER THEN TotalPins = 0
           ELSE /\ currentPageNum \in DOMAIN pages
                /\ pages[currentPageNum].type = "leaf"
                /\ pin[currentPageNum] = 1
                /\ TotalPins = 1

\* a scan that moved on to the right sibling of a leaf after an entry was
\* inserted under it
CursorPinWitness ==
  /\ op.name = "scanNext" /\ op.exc = "none"
  /\ track = "dirty"
  /\ Events("unpin") # {}
  /\ currentPageNum # INVALID_NUMBER
  /\ pin[currentPageNum] = 1

\* C9  Pins on failure paths.  When a public operation raises because a
\* readPage or allocatePage call failed, every pin the operation acquired
\* has been released by the time the error reaches the caller.
PinsReleasedOnFailure ==
  op.exc = "BufferExceeded" => PinsRestored

\* C10  Dirty discipline.  Every unpin passes dirty = true if the page was
\* written since it was pinned and dirty = false if it was not.
DirtyDiscipline ==
  \A i \in Events("unpin") : log[i].dirty = log[i].written

\* an insert below a two-level root that released the nodes it only read
\* as clean and the leaf it wrote as dirty
DirtyDisciplineWitness ==
  /\ op.name = "insertEntry" /\ op.exc = "none"
  /\ RootLevel = 2
  /\ \E i, j \in Events("unpin") :
        /\ log[i].dirty /\ log[i].written
        /\ ~log[j].dirty /\ ~log[j].written

\* the header page is pinned and later released as dirty, after a store to it
HeaderPersisted ==
  \E i, j \in DOMAIN log :
     /\ i < j
     /\ log[i].ev = "pin" /\ log[i].page = headerPageNum
     /\ log[j].ev = "unpin" /\ log[j].page = headerPageNum
     /\ log[j].dirty /\ log[j].written

\* C11  Root identity.  After the constructor and after every insertEntry
\* that returns, the rootPageNo of the meta page equals rootPageNum, the page
\* it names is an internal node from which every other page of the file is
\* reached, and an operation that made a new root (the root page did not
\* exist when it started) wrote the meta page under a pin released dirty.
RootIdentity ==
  (op.name \in {"BTreeIndex", "insertEntry"} /\ op.exc = "none")
    => /\ pages[headerPageNum].rootPageNo = rootPageNum
       /\ rootPageNum # INVALID_NUMBER =>
            /\ pages[rootPageNum].type = "nonleaf"
            /\ TreeNodes \cup Range(TreeLeaves) = 2..Len(pages)
       /\ rootPageNum > Len(op.pin0) => HeaderPersisted

\* an insertEntry that split the root of a one-level tree
RootIdentityWitness ==
  /\ op.name = "insertEntry" /\ op.exc = "none"
  /\ RootLevel = 2
  /\ rootPageNum > Len(op.pin0)
  /\ HeaderPersisted

\* ------------------------------------------------ closing and reopening
\* the constructor ran with the arguments the index closed last was made with
SamePair ==
  /\ prior.file # NoFile
  /\ ctor.relationName = prior.relationName
  /\ ctor.attrByteOffset = prior.attrByteOffset

\* the constructor found the file of the index closed last
Reopened == op.name = "BTreeIndex" /\ ctor.existed /\ SamePair

\* C14  Matching reopen.  For every relation name of at most
\* RELATION_NAME_SIZE bytes, a constructor call that finds the index file
\* made by an earlier call with the same relationName and attrByteOffset
\* does not raise BadIndexInfo.
MatchingReopenAccepted ==
  (/\ op.name = "BTreeIndex"
   /\ ctor.existed
   /\ Len(ctor.relationName) <= RELATION_NAME_SIZE)
    => op.exc # "BadIndexInfo"

\* C12  Persistence.  A constructor call with the arguments of the index
\* closed last returns, takes rootPageNum from the meta page and allocates
\* no page; a scan on the reopened index, with no insert since the close,
\* gives the result the same scan gave before the close.
Persistence ==
  /\ Reopened
       => /\ op.exc = "none"
          /\ rootPageNum = pages[headerPageNum].rootPageNo
          /\ Len(pages) = Len(op.pin0)
          /\ \A i \in DOMAIN log : log[i].page = headerPageNum
  /\ (/\ op.name = "stringScan"
      /\ ctor.existed /\ SamePair
      /\ prior.n = Cardinality(inserted))
       => \A a \in DOMAIN seen \cap DOMAIN prior.results :
             seen[a] = prior.results[a]

\* the constructor ran with arguments other than those of the index closed
\* last
DifferentPair ==
  /\ op.name = "BTreeIndex"
  /\ prior.file # NoFile
  /\ \/ ctor.relationName # prior.relationName
     \/ ctor.attrByteOffset # prior.attrByteOffset

\* the meta page holds the constructor arguments
HeaderOfCaller ==
  /\ pages[headerPageNum].relationName
        = strncpy(ctor.relationName, RELATION_NAME_SIZE)
  /\ pages[headerPageNum].attrByteOffset = ctor.attrByteOffset

\* C13 as stated  Header mismatch rejection.  A constructor call whose
\* relationName or attrByteOffset differs from those an index was created
\* with raises BadIndexInfo.
HeaderMismatchRejected == DifferentPair => op.exc = "BadIndexInfo"

\* C13  A constructor call whose relationName or attrByteOffset differs from
\* those of the index closed last does not open that index: the file of that
\* index stays as it was closed, the call builds or opens the file named
\* after its own arguments, a file it opens holds a meta page written for
\* these arguments, and a call that builds does not raise BadIndexInfo.
OtherPairOtherFile ==
  DifferentPair
    => /\ prior.file \in DOMAIN disk
       /\ file # prior.file
       /\ ctor.existed => HeaderOfCaller
       /\ ~ctor.existed => op.exc # "BadIndexInfo"

\* an index with records is closed and the constructor, called with other
\* arguments, builds another index
OtherPairOtherFileWitness ==
  /\ DifferentPair
  /\ prior.n > 0
  /\ ~ctor.existed /\ op.exc = "none"
  /\ file = IndexName(ctor.relationName, ctor.attrByteOffset)
  /\ Len(disk[prior.file].pages) > 1

\* ----------------------------------------------------- the scan protocol
\* pages that were pinned when the operation started
PinnedBefore == {p \in DOMAIN op.pin0 : op.pin0[p] > 0}

\* the index as it stands, had no scan been started on it
ScanFree ==
  [Begin(0, INVALID_NUMBER) EXCEPT !.pin = [p \in DOMAIN pin |-> 0],
                                   !.pin0 = [p \in DOMAIN pin |-> 0],
                                   !.scanExecuting = FALSE,
                                   !.nextEntry = 0,
                                   !.currentPageNum = INVALID_NUMBER,
                                   !.currentPageData = NullData]

\* startScan with the range of the scan, then scanNext until it raises
FreshScan == stringScan(ScanFree, lowVal, lowOp, highVal, highOp)

\* scanNext until it raises, from where the scan stands
Remaining == fetchAll(Begin(0, INVALID_NUMBER))

\* the cursor holds the only pin, if any
OnlyCursorPinned ==
  \A p \in DOMAIN pin :
     pin[p] = IF scanExecuting /\ p = currentPageNum THEN 1 ELSE 0

\* C15  Exactly one scan.  A startScan called while a scan holds a leaf
\* first releases that leaf, once, and leaves no pin but that of the new
\* cursor; the scanNext calls that follow return what a scan of the new
\* range returns on an index on which no scan was started before, and
\* NoSuchKeyFound is raised exactly when it is raised there.
ExactlyOneScan ==
  (op.name = "startScan" /\ PinnedBefore # {})
    => /\ log # <<>>
       /\ \A p \in PinnedBefore :
            Head(log).ev = "unpin" /\ Head(log).page = p /\ op.pin0[p] = 1
       /\ Events("underpin") = {}
       /\ OnlyCursorPinned
       /\ op.exc = "none"
            => /\ scanExecuting
               /\ Remaining.outs = FreshScan.outs
               /\ Remaining.exc = FreshScan.exc
       /\ op.exc = "NoSuchKeyFound"
            => ~scanExecuting /\ FreshScan.exc = "NoSuchKeyFound"

\* a scan that holds a leaf is replaced by a scan of another range, which
\* starts on another leaf and has more than one entry to return
ExactlyOneScanWitness ==
  /\ op.name = "startScan" /\ op.exc = "none"
  /\ \E p \in PinnedBefore : p # currentPageNum
  /\ Len(log) > 2
  /\ Len(Remaining.outs) > 1
  /\ Remaining.outs = FreshScan.outs

\* the data members of the index and the buffer pool
indexVars == <<pages, pin, rootPageNum, scanExecuting, nextEntry,
               currentPageNum, currentPageData, lowVal, highVal, lowOp, highOp>>

\* no scan is active: no startScan was called yet, or the last one raised,
\* or endScan was called, or scanNext raised
NoScanActive == track = "none"

\* C16  ScanNotInitialized.  scanNext and endScan raise ScanNotInitialized
\* exactly when no scan is active, that is before any startScan, after
\* endScan, after a scanNext that raised and after a startScan that raised;
\* a call that raises it changes no state.
ScanNotInitializedExactly ==
  [][op'.name \in {"scanNext", "endScan"}
       => /\ op'.exc = "ScanNotInitialized" <=> NoScanActive
          /\ op'.exc = "ScanNotInitialized" => UNCHANGED indexVars]_vars

\* startScan called with the argument list a, from where the index stands
StartScanFrom(a, g) == startScan(Begin(0, g), a[1], a[2], a[3], a[4])

BadRange(a) == a[1] > a[3]

BadOps(a) == a[2] \notin {GT, GTE} \/ a[4] \notin {LT, LTE}

\* C17  Scan parameter validation.  Whatever state the index is in,
\* startScan raises BadScanrange if and only if lowVal > highVal, whatever
\* the operators are; otherwise it raises BadOpcodes if and only if lowOp is
\* not GT or GTE or highOp is not LT or LTE; a call that raises one of the
\* two has read no page.
ScanValidation ==
  Alive
    => \A a \in ScanArgs \cup BadArgs, g \in UninitPageNums :
          /\ StartScanFrom(a, g).exc = "BadScanrange" <=> BadRange(a)
          /\ ~BadRange(a)
               => (StartScanFrom(a, g).exc = "BadOpcodes" <=> BadOps(a))
          /\ StartScanFrom(a, g).exc \in {"BadScanrange", "BadOpcodes"}
               => \A i \in DOMAIN StartScanFrom(a, g).log :
                     StartScanFrom(a, g).log[i].ev # "pin"

\* C18  No state change on a rejected startScan.  A startScan that raises
\* BadOpcodes or BadScanrange leaves the scan flag, the cursor, the range
\* members, the pages and every pin count as they were before the call,
\* whether or not a scan was active.
RejectedScanChangesNothing ==
  [][(op'.name = "startScan" /\ op'.exc \in {"BadOpcodes", "BadScanrange"})
       => UNCHANGED indexVars]_vars

\* the entries of the index that lie in the range of the argument list a
EntriesIn(a) ==
  {e \in inserted :
     /\ IF a[2] = GT THEN e.key > a[1] ELSE e.key >= a[1]
     /\ IF a[4] = LT THEN e.key < a[3] ELSE e.key <= a[3]}

\* the scan is ended: the flag is down and no page is pinned
ScanEnded(s) == ~s.scanExecuting /\ \A p \in DOMAIN s.pin : s.pin[p] = 0

\* C19  NoSuchKeyFound.  In every state of the tree, the empty tree
\* included, a startScan with valid operators and lowVal <= highVal whose
\* range holds no inserted key raises NoSuchKeyFound, and the scan is ended
\* when it raises: no scan is active and no leaf is pinned.
NoSuchKeyFoundRaised ==
  Alive
    => \A a \in ScanArgs, g \in UninitPageNums :
          EntriesIn(a) = {}
            => /\ StartScanFrom(a, g).exc = "NoSuchKeyFound"
               /\ ScanEnded(StartScanFrom(a, g))

\* the next scanNext call, and the next endScan call
NextScanNext == scanNext(Begin(0, INVALID_NUMBER))

NextEndScan == endScan(Begin(0, INVALID_NUMBER))

\* C20  IndexScanCompleted.  While a scan opened by a successful startScan
\* is active and every matching entry has been returned, the next scanNext
\* raises IndexScanCompleted, whether the cursor stands on a key outside the
\* range or has run off the rightmost leaf.  When scanNext has raised it,
\* the scan is ended (not active, nothing pinned), a further scanNext or
\* endScan raises ScanNotInitialized, and no matching entry is unreturned.
ScanCompletion ==
  /\ (track = "clean" /\ Matching \subseteq Range(out))
       => NextScanNext.exc = "IndexScanCompleted"
  /\ (op.name = "scanNext" /\ op.exc = "IndexScanCompleted")
       => /\ ScanEnded(Begin(0, INVALID_NUMBER))
          /\ NextScanNext.exc = "ScanNotInitialized"
          /\ NextEndScan.exc = "ScanNotInitialized"
          /\ Matching \subseteq Range(out)

\* ------------------------------------------------ the order of the inserts
\* the inserted entries by ascending key (keys pairwise distinct)
RECURSIVE Ascending(_)
Ascending(entries) ==
  IF entries = {} THEN <<>>
  ELSE LET least == CHOOSE e \in entries : \A f \in entries : e.key <= f.key
       IN <<least>> \o Ascending(entries \ {least})

Reverse(seq) == [i \in 1..Len(seq) |-> seq[Len(seq) + 1 - i]]

\* the index the constructor builds from a relation that streams recs
IndexOf(recs) ==
  BTreeIndex(FALSE, NewFile, ctor.relationName, ctor.attrByteOffset,
             [exists |-> TRUE, recs |-> recs])

\* the record ids the last scan would hand back on that index
RidsOn(index) ==
  {e.rid : e \in Range(stringScan(index, lowVal, lowOp, highVal, highOp).outs)}

\* C21  Insertion-order independence.  For entries with pairwise distinct
\* keys inserted in any order, every scan returns the set of record ids it
\* returns on the index built from the same entries in ascending order and
\* on the one built in descending order.
OrderIndependence ==
  (op.name = "stringScan" /\ DistinctKeys)
    => /\ {e.rid : e \in Range(out)} = RidsOn(IndexOf(Ascending(inserted)))
       /\ {e.rid : e \in Range(out)}
            = RidsOn(IndexOf(Reverse(Ascending(inserted))))

\* a scan over entries that were inserted neither in ascending nor in
\* descending order, after a leaf was split
OrderIndependenceWitness ==
  /\ op.name = "stringScan" /\ op.exc = "IndexScanCompleted"
  /\ Cardinality(inserted) = MaxPerm
  /\ Len(pages) > 4
  /\ Len(out) > 2
  /\ pages # IndexOf(Ascending(inserted)).pages
  /\ pages # IndexOf(Reverse(Ascending(inserted))).pages
  /\ {e.rid : e \in Range(out)} = RidsOn(IndexOf(Ascending(inserted)))

\* ------------------------------------------------------ the bulk build
LeafPages == {p \in DOMAIN pages : pages[p].type = "leaf"}

\* the entries in the occupied slots of the leaves of the file
IndexEntries == UNION {LeafEntries(p) : p \in LeafPages}

RECURSIVE OccupiedIn(_)
OccupiedIn(ps) ==
  IF ps = {} THEN 0
  ELSE LET p == CHOOSE q \in ps : TRUE
       IN getLeafLength(pages[p]) + OccupiedIn(ps \ {p})

OccupiedLeafSlots == OccupiedIn(LeafPages)

\* insertEntry for the first n records of recs, one call after the other,
\* on the index the constructor makes over an empty relation
RECURSIVE InsertedUpTo(_, _)
InsertedUpTo(recs, n) ==
  IF n = 0 THEN IndexOf(<<>>)
  ELSE insertEntry(InsertedUpTo(recs, n - 1), recs[n].key, recs[n].rid)

\* the constructor took the build path and found the relation
Built ==
  /\ op.name = "BTreeIndex"
  /\ ~ctor.existed
  /\ op.exc # "FileNotFound"

\* C22  Bulk build.  A constructor call that finds no index file creates it,
\* writes the constructor arguments to the header and inserts one entry for
\* every record the relation streams, in stream order.  The end of the
\* stream is absorbed: the constructor returns, the leaves hold exactly the
\* records of the relation, and the meta page is unpinned, released dirty.
BulkBuild ==
  Built
    => /\ op.exc = "none"
       /\ file = IndexName(ctor.relationName, ctor.attrByteOffset)
       /\ HeaderOfCaller
       /\ pages[headerPageNum].rootPageNo = rootPageNum
       /\ IndexEntries = Range(ctor.stream)
       /\ OccupiedLeafSlots = Len(ctor.stream)
       /\ pages = InsertedUpTo(ctor.stream, Len(ctor.stream)).pages
       /\ rootPageNum = InsertedUpTo(ctor.stream, Len(ctor.stream)).root
       /\ pin[headerPageNum] = 0
       /\ log # <<>>
       /\ log[Len(log)].ev = "unpin"
       /\ log[Len(log)].page = headerPageNum
       /\ log[Len(log)].dirty

\* a relation of MaxStream records with a repeated key, streamed out of
\* key order, whose build split a leaf
BulkBuildWitness ==
  /\ Built
  /\ op.exc = "none"
  /\ Len(ctor.stream) = MaxStream
  /\ Cardinality(LeafPages) = 2
  /\ ~IsSorted([i \in 1..Len(ctor.stream) |-> ctor.stream[i].key])
  /\ \E i, j \in 1..Len(ctor.stream) :
        i # j /\ ctor.stream[i].key = ctor.stream[j].key
  /\ IndexEntries = Range(ctor.stream)

\* ---------------------------------------------------------- teardown
\* C23  Teardown.  The destructor, after any sequence of public operations,
\* those that raised included, ends an active scan, raises no error itself,
\* and flushes the file at a moment when the index pins none of its pages.
Teardown ==
  op.name = "~BTreeIndex"
    => /\ op.exc = "none"
       /\ ~scanExecuting
       /\ \A p \in DOMAIN pin : pin[p] = 0

\* ------------------------------------------------- the shape of the tree
\* the pages of the file other than the meta page
TreePages == DOMAIN pages \ {headerPageNum}

\* the occupied child slots of the internal nodes of the file
ChildSlots ==
  {sl \in TreePages \X (0..NON_LEAF_NUM_KEYS) :
      /\ pages[sl[1]].type = "nonleaf"
      /\ sl[2] <= getNonLeafLength(pages[sl[1]])}

\* the occupied child slots that hold page q
ParentSlots(q) == {sl \in ChildSlots : pages[sl[1]].pageNoArray[sl[2]] = q}

\* the pages met descending from page p
RECURSIVE PagesBelow(_)
PagesBelow(p) ==
  IF pages[p].type = "leaf" THEN {p}
  ELSE {p} \cup UNION {PagesBelow(pages[p].pageNoArray[i]) :
                          i \in 0..getNonLeafLength(pages[p])}

\* C24  Reachability.  After any sequence of inserts every page of the file
\* other than the meta page is reached from rootPageNo by child pointers,
\* and is the child of exactly one slot of one internal node; the root is
\* the child of none.
Reachability ==
  rootPageNum # INVALID_NUMBER
    => /\ PagesBelow(pages[headerPageNum].rootPageNo) = TreePages
       /\ \A q \in TreePages :
             Cardinality(ParentSlots(q))
               = IF q = pages[headerPageNum].rootPageNo THEN 0 ELSE 1

\* a tree of three levels, after a split of the root
ReachabilityWitness ==
  /\ op.name = "insertEntry" /\ op.exc = "none"
  /\ RootLevel = 2
  /\ Cardinality(ChildSlots) >= 8
  /\ PagesBelow(pages[headerPageNum].rootPageNo) = TreePages

NodePages == {p \in DOMAIN pages : pages[p].type = "nonleaf"}

\* the occupied rid slots of a leaf are the first getLeafLength ones, and
\* the key slots behind them hold the zero key
DenseLeaf(leaf) ==
  \A i \in 0..(LEAF_NUM_KEYS - 1) :
     /\ (leaf.ridArray[i].page_number # INVALID_NUMBER)
          <=> (i < getLeafLength(leaf))
     /\ i >= getLeafLength(leaf) => leaf.keyArray[i] = ZeroKey

\* the occupied child slots of an internal node are the first
\* getNonLeafLength + 1 ones, and as many router keys are not zero
DenseNonLeaf(node) ==
  /\ \A i \in 0..NON_LEAF_NUM_KEYS :
        (node.pageNoArray[i] # INVALID_NUMBER)
          <=> (i <= getNonLeafLength(node))
  /\ Cardinality({i \in 0..(NON_LEAF_NUM_KEYS - 1) :
                     node.keyArray[i] # ZeroKey}) = getNonLeafLength(node)

\* C25  Dense-prefix occupancy.  In every leaf the occupied ridArray slots
\* form a prefix and the vacated key slots are zero-filled; in every internal
\* node the occupied pageNoArray slots form a prefix one longer than the
\* node's length, and the number of non-zero router keys is that length.
DensePrefix ==
  /\ \A p \in LeafPages : DenseLeaf(pages[p])
  /\ \A p \in NodePages : DenseNonLeaf(pages[p])

\* a split leaf and a split internal node, both with vacated slots
DensePrefixWitness ==
  /\ op.name = "insertEntry" /\ op.exc = "none"
  /\ RootLevel = 2
  /\ \E p \in NodePages :
        /\ p # rootPageNum
        /\ getNonLeafLength(pages[p]) < NON_LEAF_NUM_KEYS
        /\ DenseNonLeaf(pages[p])
  /\ \E p \in LeafPages :
        /\ getLeafLength(pages[p]) = Half(LEAF_NUM_KEYS)
        /\ DenseLeaf(pages[p])

\* the occupied keys of a leaf do not decrease, and every occupied slot
\* holds a key with the record id it was inserted with
SortedLeaf(leaf) ==
  /\ \A i \in 1..(getLeafLength(leaf) - 1) :
        leaf.keyArray[i - 1] <= leaf.keyArray[i]
  /\ \A i \in 0..(getLeafLength(leaf) - 1) :
        [key |-> leaf.keyArray[i], rid |-> leaf.ridArray[i]] \in inserted

\* the router keys of an internal node do not decrease
SortedNonLeaf(node) ==
  \A i \in 1..(getNonLeafLength(node) - 1) :
     node.keyArray[i - 1] <= node.keyArray[i]

\* C26  Sorted nodes.  The occupied keys of every leaf are in ascending
\* (non-decreasing) order with ridArray parallel to keyArray, and the router
\* keys of every internal node are in ascending (non-decreasing) order.
SortedNodes ==
  /\ \A p \in LeafPages : SortedLeaf(pages[p])
  /\ \A p \in NodePages : SortedNonLeaf(pages[p])

\* a descending run after an ascending one: keys were placed in front of
\* the keys of a full leaf and of an internal node with three routers
SortedNodesWitness ==
  /\ op.name = "insertEntry" /\ op.exc = "none"
  /\ rel.kind = "desc"
  /\ \E p \in LeafPages : getLeafLength(pages[p]) = LEAF_NUM_KEYS
  /\ \E p \in NodePages :
        /\ getNonLeafLength(pages[p]) >= 3
        /\ pages[p].keyArray[0] < FirstKey
        /\ SortedNonLeaf(pages[p])

\* ------------------------------------------- the full test of a node
\* C27  Internal-full predicate.  For every pair of values of LEAF_NUM_KEYS
\* and NON_LEAF_NUM_KEYS an internal node is treated as full exactly when
\* pageNoArray[NON_LEAF_NUM_KEYS] is occupied, so that a node with fewer
\* router keys than NON_LEAF_NUM_KEYS absorbs the promoted key, and the test
\* reads no slot outside pageNoArray[0..NON_LEAF_NUM_KEYS].
InternalFull ==
  probe.step = "tested"
    => /\ probe.full
            <=> (probe.pageNoArray[probe.nonLeafNumKeys] # INVALID_NUMBER)
       /\ probe.read \in 0..probe.nonLeafNumKeys

\* ---------------------------------------------------- entry conservation
\* the entries in the occupied slots of the leaves of the sibling chain
ChainEntries ==
  UNION {LeafEntries(SiblingChain[i]) : i \in 1..Len(SiblingChain)}

RECURSIVE OccupiedFrom(_, _)
OccupiedFrom(chain, i) ==
  IF i > Len(chain) THEN 0
  ELSE getLeafLength(pages[chain[i]]) + OccupiedFrom(chain, i + 1)

\* the number of occupied slots of the leaves of the sibling chain
ChainSlots == OccupiedFrom(SiblingChain, 1)

\* C28  Entry conservation.  After n calls of insertEntry, duplicates
\* included, the (key, rid) pairs in the occupied slots of the leaves of the
\* sibling chain are the pairs inserted, each once: the occupied slots are
\* n in number and hold every inserted pair.
EntryConservation ==
  /\ ChainEntries = inserted
  /\ ChainSlots = Cardinality(inserted)

\* duplicates of a key lie in two leaves of a chain of at least four
EntryConservationWitness ==
  /\ op.name = "insertEntry" /\ op.exc = "none"
  /\ Len(SiblingChain) >= 4
  /\ ~DistinctKeys
  /\ \E i, j \in 1..Len(SiblingChain) :
        /\ i # j
        /\ \E e \in LeafEntries(SiblingChain[i]),
                f \in LeafEntries(SiblingChain[j]) : e.key = f.key
  /\ ChainSlots = Cardinality(inserted)
  /\ Cardinality(inserted) >= 2 * LEAF_NUM_KEYS

\* --------------------------------------------------------- the splits
\* the leaf an insertEntry with this key descends to; INVALID_NUMBER when
\* the index is empty or the descent takes no branch
RECURSIVE InsertLeafBelow(_, _)
InsertLeafBelow(p, key) ==
  LET c == InsertChild(pages[p], key)
  IN IF c < 0 THEN INVALID_NUMBER
     ELSE IF pages[p].level = 1 THEN pages[p].pageNoArray[c]
     ELSE InsertLeafBelow(pages[p].pageNoArray[c], key)

InsertLeaf(key) ==
  IF rootPageNum = INVALID_NUMBER THEN INVALID_NUMBER
  ELSE InsertLeafBelow(rootPageNum, key)

\* the next insertEntry with this key finds its leaf full
HitsFullLeaf(key) ==
  /\ InsertLeaf(key) # INVALID_NUMBER
  /\ ~isRoomyLeaf(pages[InsertLeaf(key)])

EntriesOf(leaf) ==
  {[key |-> leaf.keyArray[i], rid |-> leaf.ridArray[i]] :
      i \in 0..(getLeafLength(leaf) - 1)}

\* the entries of a full leaf at the slots from..(LEAF_NUM_KEYS - 1)
EntriesFrom(leaf, from) ==
  {[key |-> leaf.keyArray[i], rid |-> leaf.ridArray[i]] :
      i \in from..(LEAF_NUM_KEYS - 1)}

\* insertInLeaf of the pair e on the full leaf cur gave s, with the new
\* leaf on page q
LeafSplitRight(s, cur, e, pageNum, q) ==
  /\ s.exc = "none"
  /\ s.split
  /\ Len(s.pages) = q
  /\ EntriesOf(s.pages[q]) \ {e} = EntriesFrom(cur, Half(LEAF_NUM_KEYS))
  /\ EntriesOf(s.pages[pageNum]) \ {e}
        = EntriesOf(cur) \ EntriesFrom(cur, Half(LEAF_NUM_KEYS))
  /\ (e \in EntriesOf(s.pages[pageNum]))
        <=> (e.key < cur.keyArray[Half(LEAF_NUM_KEYS)])
  /\ (e \in EntriesOf(s.pages[q]))
        <=> ~(e.key < cur.keyArray[Half(LEAF_NUM_KEYS)])
  /\ s.splitKey.pageNo = q
  /\ \E f \in EntriesOf(s.pages[q]) : f.key = s.splitKey.key
  /\ \A f \in EntriesOf(s.pages[q]) : s.splitKey.key <= f.key
  /\ \A f \in EntriesOf(s.pages[pageNum]) : f.key <= s.splitKey.key

LeafSplitOf(key) ==
  LeafSplitRight(insertInLeaf(Begin(0, INVALID_NUMBER),
                              [key |-> key, rid |-> NextRid(key)],
                              InsertLeaf(key)),
                 pages[InsertLeaf(key)],
                 [key |-> key, rid |-> NextRid(key)],
                 InsertLeaf(key), Len(pages) + 1)

\* C29  Leaf split.  When insertInLeaf hits a full leaf, the new leaf
\* receives exactly the entries of the slots from LEAF_NUM_KEYS / 2 on, the
\* incoming entry goes to the old leaf if its key is less than the first key
\* of the new leaf and to the new leaf otherwise, the pair handed up is the
\* smallest key of the new leaf, which stays there, with the page number of
\* the new leaf, and no key of the old leaf is greater and no key of the new
\* leaf is less than the key handed up.
LeafSplit ==
  \A key \in RelVals : HitsFullLeaf(key) => LeafSplitOf(key)

\* a leaf was split, and of the keys that hit a full leaf now one goes to
\* the old leaf and one, equal to a key of the leaf, to the new leaf
LeafSplitWitness ==
  /\ op.name = "insertEntry" /\ op.exc = "none"
  /\ Cardinality(LeafPages) >= 3
  /\ \E key \in RelVals :
        /\ HitsFullLeaf(key)
        /\ key < pages[InsertLeaf(key)].keyArray[Half(LEAF_NUM_KEYS)]
        /\ LeafSplitOf(key)
  /\ \E key \in RelVals :
        /\ HitsFullLeaf(key)
        /\ key = pages[InsertLeaf(key)].keyArray[Half(LEAF_NUM_KEYS)]
        /\ LeafSplitOf(key)

\* the internal nodes an insertEntry with this key descends through
RECURSIVE PathBelow(_, _)
PathBelow(p, key) ==
  LET c == InsertChild(pages[p], key)
  IN IF c < 0 \/ pages[p].level = 1 THEN {p}
     ELSE {p} \cup PathBelow(pages[p].pageNoArray[c], key)

InsertPath(key) ==
  IF rootPageNum = INVALID_NUMBER THEN {} ELSE PathBelow(rootPageNum, key)

\* insertInSubtree on node p, at the return of the call on its child
BelowNode(p, key) ==
  LET c == InsertChild(pages[p], key)
      krid == [key |-> key, rid |-> NextRid(key)]
  IN IF c < 0 THEN Throw(Begin(0, INVALID_NUMBER), "UninitialisedSplit")
     ELSE IF pages[p].level = 1
     THEN insertInLeaf(Begin(0, INVALID_NUMBER), krid,
                       pages[p].pageNoArray[c])
     ELSE insertInSubtree(Begin(0, INVALID_NUMBER), krid,
                          pages[p].pageNoArray[c])

\* a split of the child reaches node p, which is full
HitsFullNode(p, key) ==
  /\ p \in InsertPath(key)
  /\ BelowNode(p, key).exc = "none"
  /\ BelowNode(p, key).split
  /\ ~isRoomyNonLeaf(pages[p])

RouterKeys(node) ==
  {node.keyArray[i] : i \in 0..(getNonLeafLength(node) - 1)}

Children(node) == {node.pageNoArray[i] : i \in 0..getNonLeafLength(node)}

\* the split of the full node cur on the pair promoted gave the nodes cur1
\* and new and moved the key mid up
InternalSplitRight(cur, promoted, cur1, new, mid) ==
  /\ mid \notin RouterKeys(cur1)
  /\ mid \notin RouterKeys(new)
  /\ new.level = cur.level
  /\ Children(cur1) \cup Children(new) = Children(cur) \cup {promoted.pageNo}
  /\ Children(cur1) \cap Children(new) = {}
  /\ Cardinality(Children(cur1)) = getNonLeafLength(cur1) + 1
  /\ Cardinality(Children(new)) = getNonLeafLength(new) + 1
  /\ getNonLeafLength(cur1) + getNonLeafLength(new) = NON_LEAF_NUM_KEYS
  /\ \A k \in RouterKeys(cur1) : k < mid
  /\ \A k \in RouterKeys(new) : k >= mid

\* the same for what insertInSubtree on page p leaves in s: the new node is
\* the page allocated after the return from the child, and the middle key
\* is in the new root or in the pair passed up
InternalSplitDone(s, below, p) ==
  /\ s.exc = "none"
  /\ InternalSplitRight(pages[p], below.splitKey, s.pages[p],
                        s.pages[Len(below.pages) + 1],
                        IF p = rootPageNum THEN s.pages[s.root].keyArray[0]
                        ELSE s.splitKey.key)

InternalSplitOf(p, key) ==
  InternalSplitDone(insertInSubtree(Begin(0, INVALID_NUMBER),
                                    [key |-> key, rid |-> NextRid(key)], p),
                    BelowNode(p, key), p)

\* C30  Internal split.  When a promoted pair reaches a full internal node,
\* after the split the middle key is in neither the node nor the new node,
\* the new node has the level of the node, the NON_LEAF_NUM_KEYS + 2 child
\* pointers are divided between the two with none lost and none in both,
\* the router keys of the node are all less than the middle key and those of
\* the new node all greater than or equal to it, whether the promoted key
\* was placed in the node or in the new node.
InternalSplit ==
  \A key \in RelVals : \A p \in NodePages :
     HitsFullNode(p, key) => InternalSplitOf(p, key)

\* ---------------------------------------------------------- root growth
\* the step replaced the root of a tree that had one
RootReplaced ==
  /\ rootPageNum # INVALID_NUMBER
  /\ rootPageNum' # rootPageNum

\* the new root is a fresh page one level above the old root, with the old
\* root and a fresh node of the old root's level as its two children, one
\* router key, and the meta page names it
GrownRoot ==
  /\ rootPageNum' \in DOMAIN pages' \ DOMAIN pages
  /\ pages'[rootPageNum'].type = "nonleaf"
  /\ pages'[rootPageNum'].level = pages[rootPageNum].level + 1
  /\ getNonLeafLength(pages'[rootPageNum']) = 1
  /\ pages'[rootPageNum'].keyArray[0] # ZeroKey
  /\ pages'[rootPageNum'].pageNoArray[0] = rootPageNum
  /\ pages'[rootPageNum'].pageNoArray[1] \in DOMAIN pages' \ DOMAIN pages
  /\ pages'[rootPageNum'].pageNoArray[1] # rootPageNum'
  /\ pages'[pages'[rootPageNum'].pageNoArray[1]].type = "nonleaf"
  /\ pages'[pages'[rootPageNum'].pageNoArray[1]].level
        = pages[rootPageNum].level
  /\ pages'[rootPageNum].level = pages[rootPageNum].level
  /\ ~isRoomyNonLeaf(pages[rootPageNum])
  /\ pages'[headerPageNum].rootPageNo = rootPageNum'

\* the level of the node rootPageNum names changes with the root only
SameRootKept ==
  (rootPageNum # INVALID_NUMBER /\ rootPageNum' = rootPageNum)
    => pages'[rootPageNum].level = pages[rootPageNum].level

\* C31  Root growth.  When the node that is split is the root, a new root
\* is allocated one level above it, with exactly two children, the old root
\* and then the new node, and the middle key as its single router, and
\* rootPageNum and the meta page name it.  The level of the root changes in
\* no other case: the height grows by one per root split and never shrinks.
RootGrowth ==
  [][/\ RootReplaced => GrownRoot
     /\ SameRootKept]_vars

\* the root was split by the last insertEntry: the root is the page
\* allocated last and stands two levels above the leaves
RootGrowthWitness ==
  /\ op.name = "insertEntry" /\ op.exc = "none"
  /\ rootPageNum = Len(pages)
  /\ pages[rootPageNum].level = 2
  /\ getNonLeafLength(pages[rootPageNum]) = 1
  /\ pages[rootPageNum].pageNoArray[1] = rootPageNum - 1
  /\ pages[headerPageNum].rootPageNo = rootPageNum

\* ------------------------------------------------------- the first insert
\* the leaves under the first two child slots of the root
LeftLeaf == pages[rootPageNum].pageNoArray[0]

RightLeaf == pages[rootPageNum].pageNoArray[1]

\* the tree as the first insertEntry, of pair e, leaves it
Bootstrapped(e) ==
  /\ pages[rootPageNum].type = "nonleaf"
  /\ pages[rootPageNum].level = 1
  /\ getNonLeafLength(pages[rootPageNum]) = 1
  /\ pages[rootPageNum].keyArray[0] = e.key
  /\ pages[LeftLeaf].type = "leaf"
  /\ pages[RightLeaf].type = "leaf"
  /\ LeftLeaf # RightLeaf
  /\ pages[LeftLeaf].rightSibPageNo = RightLeaf
  /\ pages[RightLeaf].rightSibPageNo = INVALID_NUMBER
  /\ EntriesOf(pages[LeftLeaf]) = {}
  /\ EntriesOf(pages[RightLeaf]) = {e}
  /\ pages[headerPageNum].rootPageNo = rootPageNum

\* insertEntry of a key went to the left leaf and nowhere else
LandsLeft(s, key) ==
  /\ s.exc = "none"
  /\ EntriesOf(s.pages[LeftLeaf]) = {[key |-> key, rid |-> NextRid(key)]}
  /\ s.pages[RightLeaf] = pages[RightLeaf]
  /\ Len(s.pages) = Len(pages)

\* C32  Empty-tree bootstrap.  rootPageNo is INVALID_NUMBER exactly as long
\* as no entry has been inserted.  The first insertEntry(k, rid) creates a
\* root of level 1 with the single router key k and two leaves linked left,
\* right, INVALID_NUMBER, stores (k, rid) in the right leaf only, leaves the
\* left leaf empty and writes the new rootPageNo to the meta page; a later
\* insert of a key less than k lands in the left leaf.
Bootstrap ==
  /\ (pages[headerPageNum].rootPageNo = INVALID_NUMBER) <=> (inserted = {})
  /\ Cardinality(inserted) = 1
       => /\ \A e \in inserted : Bootstrapped(e)
          /\ \A key \in RelVals :
                (ZeroKey < key /\ key < pages[rootPageNum].keyArray[0])
                  => LandsLeft(insertEntry(Begin(0, INVALID_NUMBER), key,
                                           NextRid(key)), key)

\* the second insert, of a key less than the first, went to the left leaf
BootstrapWitness ==
  /\ op.name = "insertEntry" /\ op.exc = "none"
  /\ Cardinality(inserted) = 2
  /\ pages[rootPageNum].level = 1
  /\ getNonLeafLength(pages[rootPageNum]) = 1
  /\ \E e \in inserted :
        /\ e.key < pages[rootPageNum].keyArray[0]
        /\ EntriesOf(pages[LeftLeaf]) = {e}
        /\ EntriesOf(pages[RightLeaf]) = inserted \ {e}
  /\ pages[RightLeaf].rightSibPageNo = INVALID_NUMBER

\* ------------------------------------------------- access while pinned
\* C33  Access only while pinned.  The index reads or writes the contents
\* of a page only while it holds a pin on it: no operation touches a page
\* after the unPinPage call that released its last pin on that page.
AccessWhilePinned == op.stale = {}

\* ------------------------------------------------------ scans read only
ScanOperations == {"startScan", "scanNext", "endScan"}

\* every unpin of the operation that ran last passed dirty = false
UnpinsClean ==
  \A i \in DOMAIN log :
     log[i].ev \in {"unpin", "underpin"} => ~log[i].dirty

\* C34  Scan is read-only.  startScan, scanNext and endScan change no byte
\* of any page of the index, and every unpin they issue passes
\* dirty = false; only the scan members and the pin counts change.
ScanReadOnly ==
  [][op'.name \in ScanOperations
       => /\ pages' = pages
          /\ UnpinsClean'
          /\ rootPageNum' = rootPageNum
          /\ inserted' = inserted]_vars

\* a startScan that looked into more than one leaf and found its first
\* entry, releasing the node and the leaves it left
ScanReadOnlyWitness ==
  /\ op.name = "startScan" /\ op.exc = "none"
  /\ scanExecuting
  /\ Cardinality({i \in DOMAIN log : log[i].ev = "unpin"}) >= 2
  /\ \E i \in DOMAIN log :
        log[i].ev = "unpin" /\ pages[log[i].page].type = "leaf"
  /\ UnpinsClean
  /\ pin[currentPageNum] = 1

\* ------------------------------------------------- pins during an insert
\* the number of levels of the tree, the leaves included
TreeHeight == IF rootPageNum = INVALID_NUMBER THEN 0 ELSE RootLevel + 1

\* the most pins the operation that ran last held at any of its buffer
\* manager calls
RECURSIVE MaxHeldFrom(_)
MaxHeldFrom(i) ==
  IF i > Len(log) THEN 0
  ELSE IF log[i].held > MaxHeldFrom(i + 1) THEN log[i].held
  ELSE MaxHeldFrom(i + 1)

MaxHeld == MaxHeldFrom(1)

\* C35  Bounded pins during insert.  At every point of an insertEntry call
\* the pages the call has pinned are at most one per level of the tree it
\* started on, plus three: the new sibling of the node being split, a new
\* root and the meta page; the number of entries does not matter.
BoundedPins ==
  [][op'.name = "insertEntry" => MaxHeld' <= TreeHeight + 3]_vars

\* an insertEntry that split a leaf, the node above it and the root, with
\* more than three pages pinned at once
BoundedPinsWitness ==
  /\ op.name = "insertEntry" /\ op.exc = "none"
  /\ rootPageNum = Len(pages)
  /\ RootLevel = 2
  /\ MaxHeld >= 4
  /\ Cardinality(inserted) >= 2 * LEAF_NUM_KEYS

\* ------------------------------------------------------ non-empty nodes
\* C36  Non-empty nodes.  After any sequence of inserts every internal node
\* has at least one router key and every leaf other than the leftmost leaf
\* of the sibling chain holds at least one entry: a scan that moves to a
\* right sibling finds an entry in slot 0.
NonEmptyNodes ==
  /\ \A p \in NodePages :
        /\ getNonLeafLength(pages[p]) >= 1
        /\ pages[p].keyArray[getNonLeafLength(pages[p]) - 1] # ZeroKey
        /\ pages[p].pageNoArray[getNonLeafLength(pages[p])]
              # INVALID_NUMBER
  /\ \A p \in LeafPages :
        p # LeftmostLeaf(rootPageNum)
          => /\ getLeafLength(pages[p]) >= 1
             /\ pages[p].ridArray[0].page_number # INVALID_NUMBER
  /\ \A p \in LeafPages :
        pages[p].rightSibPageNo # INVALID_NUMBER
          => getLeafLength(pages[pages[p].rightSibPageNo]) >= 1

\* a tree of three levels whose leftmost leaf is still empty
NonEmptyNodesWitness ==
  /\ op.name = "insertEntry" /\ op.exc = "none"
  /\ RootLevel = 2
  /\ Len(SiblingChain) >= 5
  /\ getLeafLength(pages[LeftmostLeaf(rootPageNum)]) = 0
  /\ \A i \in 2..Len(SiblingChain) :
        getLeafLength(pages[SiblingChain[i]]) >= Half(LEAF_NUM_KEYS)

\* ------------------------------------------------------ the two descents
DistinctRouters(node) ==
  \A i, j \in 0..(getNonLeafLength(node) - 1) :
     i # j => node.keyArray[i] # node.keyArray[j]

\* the number of router keys of the node that are at most v
RoutersUpTo(node, v) ==
  Cardinality({i \in 0..(getNonLeafLength(node) - 1) : node.keyArray[i] <= v})

\* the child slot the descent of startScan takes at the node
ScanChild(node, lowOpParm, lowValParm) ==
  FindChild(node, getNonLeafLength(node), lowOpParm, lowValParm, 0)

\* the two descents take the same child slot at the node
SameChild(node, lowOpParm, lowValParm) ==
  /\ ScanChild(node, lowOpParm, lowValParm) = InsertChild(node, lowValParm)
  /\ ScanChild(node, lowOpParm, lowValParm) = RoutersUpTo(node, lowValParm)

\* the leaf startScan pins first
RECURSIVE ScanLeafBelow(_, _, _)
ScanLeafBelow(p, lowOpParm, lowValParm) ==
  IF pages[p].level = 1
  THEN pages[p].pageNoArray[ScanChild(pages[p], lowOpParm, lowValParm)]
  ELSE ScanLeafBelow(
         pages[p].pageNoArray[ScanChild(pages[p], lowOpParm, lowValParm)],
         lowOpParm, lowValParm)

\* the entries that satisfy the lower bound
AboveLow(lowOpParm, lowValParm) ==
  {e \in inserted : IF lowOpParm = GT THEN e.key > lowValParm
                                      ELSE e.key >= lowValParm}

\* the place of a leaf in the sibling chain
ChainPlace(p) == CHOOSE i \in 1..Len(SiblingChain) : SiblingChain[i] = p

\* no entry with the least key above the lower bound lies in a leaf left
\* of the leaf startScan pins first
NotRightOfLeast(lowOpParm, lowValParm) ==
  \A e \in AboveLow(lowOpParm, lowValParm) :
     (\A f \in AboveLow(lowOpParm, lowValParm) : e.key <= f.key)
       => \A q \in LeafPages :
            e \in LeafEntries(q)
              => ChainPlace(ScanLeafBelow(rootPageNum, lowOpParm, lowValParm))
                   <= ChainPlace(q)

\* C37  Scan descent agrees with insert descent.  At every internal node
\* whose router keys are pairwise distinct, for every lowVal and for GT and
\* GTE, the child slot the descent of startScan takes is the slot the
\* insert descent takes for a key equal to lowVal, which is the number of
\* router keys less than or equal to lowVal; so the leaf startScan pins
\* first is never to the right of the leaf that holds the least matching
\* key.
DescentsAgree ==
  (\A p \in NodePages : DistinctRouters(pages[p]))
    => \A lowValParm \in RelVals : \A lowOpParm \in {GT, GTE} :
         /\ \A p \in NodePages : SameChild(pages[p], lowOpParm, lowValParm)
         /\ rootPageNum # INVALID_NUMBER
              => NotRightOfLeast(lowOpParm, lowValParm)

\* the part of the property about the child slots alone
DescentsAgreeNodes ==
  (\A p \in NodePages : DistinctRouters(pages[p]))
    => \A lowValParm \in RelVals : \A lowOpParm \in {GT, GTE} :
         \A p \in NodePages : SameChild(pages[p], lowOpParm, lowValParm)

\* --------------------------------------------------- the end of a scan
\* the descent of startScan from node p comes to a leaf in at most n reads
\* of an internal node
RECURSIVE DescentEnds(_, _, _, _)
DescentEnds(p, lowOpParm, lowValParm, n) ==
  /\ n > 0
  /\ p \in NodePages
  /\ IF pages[p].level = 1
     THEN pages[p].pageNoArray[ScanChild(pages[p], lowOpParm, lowValParm)]
            \in LeafPages
     ELSE DescentEnds(
            pages[p].pageNoArray[ScanChild(pages[p], lowOpParm, lowValParm)],
            lowOpParm, lowValParm, n - 1)

\* following rightSibPageNo from leaf p comes to the end of the chain in
\* at most n reads of a leaf
RECURSIVE ChainEnds(_, _)
ChainEnds(p, n) ==
  \/ p = INVALID_NUMBER
  \/ /\ n > 0
     /\ p \in LeafPages
     /\ ChainEnds(pages[p].rightSibPageNo, n - 1)

\* the walk of startScan, for every lower bound: down the tree in at most
\* TreeHeight - 1 nodes, along the chain in at most as many leaves as the
\* file has
WalkEnds ==
  /\ \A lowValParm \in RelVals : \A lowOpParm \in {GT, GTE} :
        DescentEnds(rootPageNum, lowOpParm, lowValParm, TreeHeight - 1)
  /\ \A p \in LeafPages : ChainEnds(p, Cardinality(LeafPages))

\* scanNext, called again and again on the scan of s, raises
\* IndexScanCompleted at its n-th call at the latest
RECURSIVE CompletesWithin(_, _)

CompletesAfter(s, n) ==
  \/ s.exc = "IndexScanCompleted"
  \/ s.exc = "none" /\ CompletesWithin(s, n - 1)

CompletesWithin(s, n) == n > 0 /\ CompletesAfter(scanNext(s), n)

\* startScan returns or raises NoSuchKeyFound, and the scan it opens
\* comes to its end
StartedScanEnds(s) ==
  \/ s.exc = "NoSuchKeyFound"
  \/ s.exc = "none" /\ CompletesWithin(s, OccupiedLeafSlots + 1)

\* C38  Scan termination.  On a tree reachable by inserts the walk of
\* startScan down the tree and along the sibling chain comes to an end,
\* and from an active scan repeated calls of scanNext raise
\* IndexScanCompleted after at most as many calls as the tree has entries,
\* plus one.
ScanTermination ==
  rootPageNum # INVALID_NUMBER
    => /\ WalkEnds
       /\ \A a \in ScanArgs : \A g \in UninitPageNums :
             StartedScanEnds(StartScanFrom(a, g))
       /\ scanExecuting
            => \A g \in UninitPageNums :
                  CompletesWithin(Begin(0, g), OccupiedLeafSlots + 1)

====
